---- MODULE Spec2Model ----
(***************************************************************************)
(* A model of the connector substrate of tremor-runtime:                   *)
(*  - the CB test connector (src/connectors/impls/cb.rs): the file-backed  *)
(*    CbSource, the command sink CbSink, and the source runtime / pipeline *)
(*    / sink runtime that carry events from the source to the sink and     *)
(*    contraflow (ack, fail, circuit breaker signals) back;                *)
(*  - the sink runtime's auto-ack rule over the Clickhouse, CB and         *)
(*    BigQuery sinks;                                                      *)
(*  - the listener connectors (tcp/server.rs, ws/server.rs,                *)
(*    unix_socket/server.rs): connect, the accept task, on_stop, and the   *)
(*    channel sink and source the connections are registered with;         *)
(*  - the connector builders and their configuration structs;              *)
(*  - the BigQuery writer sink (gbq/writer/sink.rs): connect, on_event and *)
(*    the mapping of a table schema and of event values to protobuf rows;  *)
(*  - the HTTP request builder (http/meta.rs): new, append and finalize.   *)
(***************************************************************************)
EXTENDS Integers, Sequences, FiniteSets, TLC

VARIABLES
    config,       \* Config { path (the file's lines), timeout, expect_batched }
    branching,    \* topology: FALSE = straight line, TRUE = the event reaches two sinks
    pos,          \* CbSource.file: number of lines consumed from the Lines iterator
    num_sent,     \* CbSource.num_sent
    last_sent,    \* CbSource.last_sent
    received_cbs, \* CbSource.received_cbs: [ack, fail, trigger, restore]
    finished,     \* CbSource.finished
    kill_switch,  \* "running", or the ShutdownMode the kill switch was stopped with
    stderr,       \* what the source printed with eprintln!
    pc,           \* position of the source runtime task: "running" | "sleeping" | "done"
    pull_id,      \* the source runtime's pull counter
    triggered,    \* the source runtime's circuit breaker gate
    replies,      \* the results pull_data returned so far, in call order
    pipe,         \* events in flight from the source to the sink (FIFO)
    contra,       \* contraflow in flight from the sink to the source (FIFO)
    cb_sent,      \* the circuit breaker actions the sink replied with so far
    sinkEvent,    \* the event handed to CbSink::on_event (sink specification)
    sinkReply,    \* the SinkReply it returned (sink specification)
    handled,      \* per sink kind: the replies on_event returned, in event order
    upstream,     \* per sink kind: what its sink runtime propagated upstream
    server,       \* listener connector: which server it is and whether tls is configured
    accept_task,  \* its accept_task / listener_task field: None, or Some(task)
    tasks,        \* the accept tasks spawned so far: state, position, StreamIdGen
    bound,        \* the tasks whose listener socket is bound
    beacon,       \* the quiescence beacon: "running" | "stopped"
    conns,        \* connections the listener accepted so far
    connect_calls,\* calls of connect so far
    stop_calls,   \* calls of on_stop so far
    regs,         \* the writer and reader registrations issued so far, in order
    aborted,      \* the connections whose handshake failed
    data_from,    \* the connections whose reader emitted a Data reply
    dispatched,   \* the last outbound event the channel sink dispatched
    built,        \* connector construction: the config, the builder's result, source and sink
    table_schema, \* BigQuery: the fields of the table schema the write stream reports
    client,       \* GbqSink.client is Some
    write_stream, \* GbqSink.write_stream is Some
    mapping,      \* GbqSink.mapping: None, or the JsonToProtobufMapping
    connectivity, \* the runtime's view of the sink: "initialized" | "connected" | "lost"
    requests,     \* the AppendRowsRequests sent to the remote endpoint so far
    notified,     \* calls of notifier.connection_lost so far
    gbq_result,   \* what the last on_event / connect did and returned
    http_in,      \* HTTP: the config, the event meta and the configured codec
    builder,      \* the HttpRequestBuilder: None, or its request, body_data and codec_overwrite
    channel,      \* the chunk channel of a chunked request: what was sent, and whether it is closed
    appended,     \* the values passed to append so far, in call order
    handed,       \* what each get_chunked_request and finalize call returned
    kafka_config, \* Kafka onramp: its Config (sync)
    kafka_pc,     \* where onramp_loop is: "wait_first" | "stream_wait" | "done" | "failed"
    pipelines,    \* the pipelines connected to the onramp
    event_id,     \* the id of the event sent last
    rx,           \* the control messages waiting in a send on the control channel
    ctl_log,      \* control messages: how many were sent, which were received, the answers
    tx_alive,     \* a sender of the control channel still exists
    consumed,     \* the messages taken from the consumer stream so far
    sent_events,  \* the events sent to pipelines so far
    unacked       \* the events sent and not yet acknowledged

vars == <<config, branching, pos, num_sent, last_sent, received_cbs, finished,
          kill_switch, stderr, pc, pull_id, triggered, replies, pipe, contra,
          cb_sent, sinkEvent, sinkReply, handled, upstream, server, accept_task,
          tasks, bound, beacon, conns, connect_calls, stop_calls, regs, aborted,
          data_from, dispatched, built, table_schema, client, write_stream,
          mapping, connectivity, requests, notified, gbq_result, http_in,
          builder, channel, appended, handed, kafka_config, kafka_pc, pipelines,
          event_id, rx, ctl_log, tx_alive, consumed, sent_events, unacked>>

sourceVars == <<config, branching, pos, num_sent, last_sent, received_cbs, finished,
                kill_switch, stderr, pc, pull_id, triggered, replies, pipe, contra,
                cb_sent>>

sinkVars == <<sinkEvent, sinkReply>>

ackVars == <<handled, upstream>>

listenerVars == <<server, accept_task, tasks, bound, beacon, conns, connect_calls,
                  stop_calls, regs, aborted, data_from, dispatched>>

buildVars == <<built>>

gbqVars == <<table_schema, client, write_stream, mapping, connectivity, requests,
             notified, gbq_result>>

httpVars == <<http_in, builder, channel, appended, handed>>

kafkaVars == <<kafka_config, kafka_pc, pipelines, event_id, rx, ctl_log, tx_alive,
               consumed, sent_events, unacked>>

(***************************************************************************)
(* Bounds of the model.                                                    *)
(***************************************************************************)
MaxLines == 3   \* lines in the source's file
MaxCmds == 2    \* elements of a cb array
MaxBatch == 2   \* elements of a batched event

(***************************************************************************)
(* Values.  A value (event payload or event metadata) is represented by    *)
(* its "cb" entry: absent, a string, an array, or anything else (a number, *)
(* null, an object).  An array element is a string or not a string.        *)
(***************************************************************************)
Commands == {"ack", "fail", "close", "trigger", "open", "restore", "noop"}

StrElem(x) == [str |-> TRUE, s |-> x]
NonStrElem == [str |-> FALSE, s |-> ""]
Elems == {StrElem(x) : x \in Commands} \cup {NonStrElem}

NoEntry == [t |-> "none", s |-> "", a |-> <<>>]
Str(x) == [t |-> "str", s |-> x, a |-> <<>>]
Arr(xs) == [t |-> "arr", s |-> "", a |-> xs]
Other == [t |-> "other", s |-> "", a |-> <<>>]

SeqsUpTo(S, n) == UNION {[1..k -> S] : k \in 0..n}

Entries == {NoEntry, Other} \cup {Str(x) : x \in Commands}
              \cup {Arr(xs) : xs \in SeqsUpTo(Elems, MaxCmds)}

\* Option<T>: None is the empty sequence, Some(x) the one-element sequence.
None == <<>>
Some(x) == <<x>>

(***************************************************************************)
(* CbSink                                                                  *)
(***************************************************************************)
\* ctx.extract_meta(v): the value's entry under the connector type, "cb"
extract_meta(v) == IF v.t = "none" THEN None ELSE Some(v)

\* Option::or_else
or_else(a, b) == IF a # None THEN a ELSE b

\* array.iter().filter_map(|v| v.as_str()...).collect()
RECURSIVE filter_map_str(_)
filter_map_str(xs) ==
    IF xs = <<>> THEN <<>>
    ELSE IF Head(xs).str THEN <<Head(xs).s>> \o filter_map_str(Tail(xs))
    ELSE filter_map_str(Tail(xs))

cb_cmds(cb) ==
    IF cb.t = "arr" THEN filter_map_str(cb.a)
    ELSE IF cb.t = "str" THEN <<cb.s>>
    ELSE <<>>

\* Vec::contains
contains(v, x) == \E i \in 1..Len(v) : v[i] = x

AckPrefersFail(cmds) ==
    IF contains(cmds, "fail") THEN "Fail"
    ELSE IF contains(cmds, "ack") THEN "Ack"
    ELSE "None"

\* Acknowledgement tracking
SinkAckOf(cmds) ==
    IF contains(cmds, "ack") THEN "Ack"
    ELSE IF contains(cmds, "fail") THEN "Fail"
    ELSE "None"

CbActionPrefersRestore(cmds) ==
    IF contains(cmds, "open") \/ contains(cmds, "restore") THEN "Restore"
    ELSE IF contains(cmds, "close") \/ contains(cmds, "trigger") THEN "Trigger"
    ELSE "None"

\* Circuit breaker tracking
CbActionOf(cmds) ==
    IF contains(cmds, "close") \/ contains(cmds, "trigger") THEN "Trigger"
    ELSE IF contains(cmds, "open") \/ contains(cmds, "restore") THEN "Restore"
    ELSE "None"

SinkReplyNONE == [ack |-> "None", cb |-> "None"]

\* An event is the sequence of its (value, meta) pairs: one pair, or one per
\* element of a batched event.
RECURSIVE on_event(_)
on_event(event) ==
    IF event = <<>> THEN SinkReplyNONE
    ELSE LET value == Head(event)[1]
             meta == Head(event)[2]
             cb == or_else(extract_meta(meta), extract_meta(value))
         IN IF cb # None
            THEN LET cmds == cb_cmds(cb[1])
                 IN [ack |-> SinkAckOf(cmds), cb |-> CbActionOf(cmds)]
            ELSE on_event(Tail(event))

auto_ack == FALSE

(***************************************************************************)
(* The other sinks of the repository, as far as their replies go.          *)
(***************************************************************************)
\* ClickhouseSink::on_event: the event is ignored
ClickhouseSink_on_event(event) == SinkReplyNONE

ClickhouseSink_auto_ack_off == FALSE

ClickhouseSink_auto_ack == TRUE

\* GbqSink::on_event, as a function of what the append_rows call did:
\* it timed out, the response stream timed out, the stream answered with a
\* response, with an error, or ended without an item.
GbqOutcomes == {"append_timeout", "next_timeout", "appended", "rejected", "ended"}

\* on_event answering a timeout of the response stream with no reply
GbqSink_on_event_timeout_none(outcome) ==
    IF outcome = "append_timeout" THEN [ack |-> "Fail", cb |-> "None"]
    ELSE IF outcome = "appended" THEN [ack |-> "Ack", cb |-> "None"]
    ELSE IF outcome = "rejected" THEN [ack |-> "Fail", cb |-> "None"]
    ELSE SinkReplyNONE

GbqSink_on_event(outcome) ==
    IF outcome = "append_timeout" THEN [ack |-> "Fail", cb |-> "None"]
    ELSE IF outcome = "appended" THEN [ack |-> "Ack", cb |-> "None"]
    ELSE IF outcome = "rejected" THEN [ack |-> "Fail", cb |-> "None"]
    ELSE IF outcome = "ended" THEN SinkReplyNONE
    ELSE [ack |-> "Fail", cb |-> "None"]

GbqSink_auto_ack == FALSE

(***************************************************************************)
(* The sink specification: CbSink::on_event applied to one event drawn     *)
(* from a bounded set.                                                     *)
(***************************************************************************)
SmallEntries == {NoEntry, Other, Str("ack"), Arr(<<StrElem("fail"), StrElem("open")>>)}

\* one (value, meta) pair: one side ranges over every entry
Pairs == (Entries \X SmallEntries) \cup (SmallEntries \X Entries)

BatchPairs == SmallEntries \X SmallEntries

SinkEvents == {<<p>> : p \in Pairs}
                 \cup {b \in SeqsUpTo(BatchPairs, MaxBatch) : Len(b) # 1}

Pending == [ack |-> "pending", cb |-> "pending"]


SinkInit ==
    /\ sinkEvent \in SinkEvents
    /\ sinkReply = Pending

\* the sink runtime hands the event to the sink
SinkOnEvent ==
    /\ sinkReply = Pending
    /\ sinkReply' = on_event(sinkEvent)
    /\ UNCHANGED sinkEvent

(***************************************************************************)
(* CbSource                                                                *)
(***************************************************************************)
DEFAULT_STREAM_ID == "DEFAULT_STREAM_ID"

\* the first pull id the source runtime hands out
FirstPullId == 1

\* ShutdownMode::Graceful ends the process with exit code 0
ExitCode(mode) == IF mode = "Graceful" THEN 0 ELSE 1

Max2_keeps_first(a, b) == a

Max2(a, b) == IF a >= b THEN a ELSE b

\* Option<u64> ordering: None < Some(_)
OptMax(a, b) ==
    IF a = None THEN b
    ELSE IF b = None THEN a
    ELSE Some(Max2(a[1], b[1]))

\* Iterator::max
RECURSIVE IterMax(_)
IterMax(v) == IF v = <<>> THEN None ELSE OptMax(Some(Head(v)), IterMax(Tail(v)))

\* ReceivedCbs::default()
ReceivedCbsDefault == [ack |-> <<>>, fail |-> <<>>, trigger |-> 0, restore |-> 0]

\* ReceivedCbs::count
ReceivedCbs_count(rc) == Len(rc.ack) + Len(rc.fail)

ReceivedCbs_max_acks_only(rc) == IterMax(rc.ack)

\* ReceivedCbs::max
ReceivedCbs_max(rc) == OptMax(IterMax(rc.ack), IterMax(rc.fail))

did_receive_all_unfinished(cfg, rc, n, last, fin) ==
    IF cfg.expect_batched
    THEN LET m == ReceivedCbs_max(rc) IN IF m = None THEN FALSE ELSE m[1] = last
    ELSE ReceivedCbs_count(rc) = n

\* CbSource::did_receive_all
did_receive_all(cfg, rc, n, last, fin) ==
    LET all_received ==
            IF cfg.expect_batched
            THEN LET m == ReceivedCbs_max(rc)
                 IN IF m = None THEN FALSE ELSE m[1] = last
            ELSE ReceivedCbs_count(rc) = n
    IN fin /\ all_received

DidReceiveAll == did_receive_all(config, received_cbs, num_sent, last_sent, finished)

ack_twice(rc, id) == [rc EXCEPT !.ack = Append(Append(@, id), id)]

\* CbSource::ack
ack(rc, id) == [rc EXCEPT !.ack = Append(@, id)]

\* CbSource::fail
fail(rc, id) == [rc EXCEPT !.fail = Append(@, id)]

on_cb_close_counts_restore(rc) == [rc EXCEPT !.restore = @ + 1]

\* CbSource::on_cb_close
on_cb_close(rc) == [rc EXCEPT !.trigger = @ + 1]

on_cb_open_counts_trigger(rc) == [rc EXCEPT !.trigger = @ + 1]

\* CbSource::on_cb_open
on_cb_open(rc) == [rc EXCEPT !.restore = @ + 1]

(***************************************************************************)
(* The file the source reads.  A line is readable (its text decodes to a   *)
(* payload, represented by the payload's cb entry) or not (io::Lines       *)
(* yields an error for it).                                                *)
(***************************************************************************)
GoodLine(e) == [ok |-> TRUE, data |-> e]
BadLine == [ok |-> FALSE, data |-> NoEntry]

LinePayloads ==
    { Str("ack"), Str("fail"), Arr(<<>>),
      Arr(<<StrElem("ack"), StrElem("close")>>),
      Arr(<<StrElem("ack"), StrElem("open")>>) }

Lines == {GoodLine(e) : e \in LinePayloads} \cup {BadLine}

Files == SeqsUpTo(Lines, MaxLines)

\* timeout in nanoseconds: none, or some positive duration
Timeouts == {0, 1}

Configs == [path : Files, timeout : Timeouts, expect_batched : BOOLEAN]

NoStderr == [msg |-> "", id |-> 0, acks |-> <<>>, fails |-> <<>>]

\* CbSource::new, and the source runtime before its first pull
SourceInit ==
    /\ config \in Configs
    /\ branching \in BOOLEAN
    /\ pos = 0
    /\ num_sent = 0
    /\ last_sent = 0
    /\ received_cbs = ReceivedCbsDefault
    /\ finished = FALSE
    /\ kill_switch = "running"
    /\ stderr = NoStderr
    /\ pc = "running"
    /\ pull_id = FirstPullId
    /\ triggered = FALSE
    /\ replies = <<>>
    /\ pipe = <<>>
    /\ contra = <<>>
    /\ cb_sent = <<>>

\* the source runtime pulls only while it is running and the circuit
\* breaker gate is open
MayPull == pc = "running" /\ ~triggered

\* pull_data, first branch: the file yields a line
PullLine ==
    /\ MayPull
    /\ pos < Len(config.path)
    /\ LET line == config.path[pos + 1] IN
        /\ pos' = pos + 1
        /\ num_sent' = num_sent + 1
        /\ last_sent' = Max2(last_sent, pull_id)
        /\ IF line.ok
           THEN /\ replies' = Append(replies,
                      [kind |-> "Data", id |-> pull_id, line |-> pos + 1,
                       stream |-> DEFAULT_STREAM_ID, scheme |-> "tremor-cb"])
                /\ pipe' = Append(pipe,
                      [id |-> pull_id, value |-> line.data, meta |-> NoEntry])
                /\ pull_id' = pull_id + 1
           ELSE /\ replies' = Append(replies,
                      [kind |-> "Err", id |-> pull_id, line |-> pos + 1,
                       stream |-> "", scheme |-> ""])
                /\ UNCHANGED <<pipe, pull_id>>
    /\ UNCHANGED <<config, branching, received_cbs, finished, kill_switch, stderr,
                   pc, triggered, contra, cb_sent, sinkVars>>

PullEndStreamStaysUnfinished ==
    /\ MayPull
    /\ pos = Len(config.path)
    /\ ~finished
    /\ replies' = Append(replies,
          [kind |-> "EndStream", id |-> pull_id, line |-> 0,
           stream |-> DEFAULT_STREAM_ID, scheme |-> "tremor-cb"])
    /\ UNCHANGED <<config, branching, pos, num_sent, last_sent, received_cbs,
                   finished, kill_switch, stderr, pc, pull_id, triggered, pipe,
                   contra, cb_sent, sinkVars>>

\* pull_data, last branch: end of file, not yet finished
PullEndStream ==
    /\ MayPull
    /\ pos = Len(config.path)
    /\ ~finished
    /\ finished' = TRUE
    /\ replies' = Append(replies,
          [kind |-> "EndStream", id |-> pull_id, line |-> 0,
           stream |-> DEFAULT_STREAM_ID, scheme |-> "tremor-cb"])
    /\ UNCHANGED <<config, branching, pos, num_sent, last_sent, received_cbs,
                   kill_switch, stderr, pc, pull_id, triggered, pipe, contra,
                   cb_sent, sinkVars>>

\* the first line of the report on stderr
Success == "All required CB events received."
Missing == "Expected CB events up to id"

\* the report to stderr, the graceful stop and the Finished reply
Report ==
    /\ stderr' =
          IF DidReceiveAll
          THEN [msg |-> Success, id |-> 0,
                acks |-> received_cbs.ack, fails |-> received_cbs.fail]
          ELSE [msg |-> Missing, id |-> last_sent,
                acks |-> received_cbs.ack, fails |-> received_cbs.fail]
    /\ kill_switch' = "Graceful"
    /\ replies' = Append(replies,
          [kind |-> "Finished", id |-> pull_id, line |-> 0, stream |-> "",
           scheme |-> ""])
    /\ pc' = "done"

\* pull_data, finished branch, up to the sleep: the runtime task is suspended
\* inside pull_data for the whole timeout
PullFinished ==
    /\ MayPull
    /\ pos = Len(config.path)
    /\ finished
    /\ IF config.timeout > 0 /\ ~DidReceiveAll
       THEN /\ pc' = "sleeping"
            /\ UNCHANGED <<stderr, kill_switch, replies>>
       ELSE Report
    /\ UNCHANGED <<config, branching, pos, num_sent, last_sent, received_cbs,
                   finished, pull_id, triggered, pipe, contra, cb_sent, sinkVars>>

\* pull_data, finished branch, after the sleep
Wake ==
    /\ pc = "sleeping"
    /\ Report
    /\ UNCHANGED <<config, branching, pos, num_sent, last_sent, received_cbs,
                   finished, pull_id, triggered, pipe, contra, cb_sent, sinkVars>>

(***************************************************************************)
(* The pipeline and the sink runtime: the event reaches the sink (both     *)
(* sinks when the pipeline branches), the sink replies, the reply's ack    *)
(* and circuit breaker action travel back as contraflow.                   *)
(***************************************************************************)
\* What the sink runtime propagates upstream for a reply: the reply's own
\* ack or fail, or a synthesised ack when the sink asks for auto-ack.
Propagate(autoAck, reply, id) ==
    IF reply.ack = "Ack" THEN <<[kind |-> "ack", id |-> id]>>
    ELSE IF reply.ack = "Fail" THEN <<[kind |-> "fail", id |-> id]>>
    ELSE IF autoAck THEN <<[kind |-> "ack", id |-> id]>>
    ELSE <<>>

AckMsgs(reply, id) == Propagate(auto_ack, reply, id)

CbMsgs(reply, id) ==
    IF reply.cb = "Trigger" THEN <<[kind |-> "trigger", id |-> id]>>
    ELSE IF reply.cb = "Restore" THEN <<[kind |-> "restore", id |-> id]>>
    ELSE <<>>

CbLog(reply) == IF reply.cb = "None" THEN <<>> ELSE <<reply.cb>>

Deliver ==
    /\ pipe # <<>>
    /\ LET ev == Head(pipe)
           reply == on_event(<< <<ev.value, ev.meta>> >>)
           msgs == AckMsgs(reply, ev.id) \o CbMsgs(reply, ev.id)
       IN /\ contra' = IF branching THEN contra \o msgs \o msgs ELSE contra \o msgs
          /\ cb_sent' = IF branching THEN cb_sent \o CbLog(reply) \o CbLog(reply)
                        ELSE cb_sent \o CbLog(reply)
    /\ pipe' = Tail(pipe)
    /\ UNCHANGED <<config, branching, pos, num_sent, last_sent, received_cbs,
                   finished, kill_switch, stderr, pc, pull_id, triggered, replies,
                   sinkVars>>

(***************************************************************************)
(* The source runtime routes contraflow to the source.  It is the single   *)
(* owner of the source: while it is suspended in pull_data it calls        *)
(* nothing else.                                                           *)
(***************************************************************************)
MayHandle(kind) == pc # "sleeping" /\ contra # <<>> /\ Head(contra).kind = kind

HandleAck ==
    /\ MayHandle("ack")
    /\ received_cbs' = ack(received_cbs, Head(contra).id)
    /\ contra' = Tail(contra)
    /\ UNCHANGED <<config, branching, pos, num_sent, last_sent, finished,
                   kill_switch, stderr, pc, pull_id, triggered, replies, pipe,
                   cb_sent, sinkVars>>

HandleFail ==
    /\ MayHandle("fail")
    /\ received_cbs' = fail(received_cbs, Head(contra).id)
    /\ contra' = Tail(contra)
    /\ UNCHANGED <<config, branching, pos, num_sent, last_sent, finished,
                   kill_switch, stderr, pc, pull_id, triggered, replies, pipe,
                   cb_sent, sinkVars>>

HandleCbClose ==
    /\ MayHandle("trigger")
    /\ received_cbs' = on_cb_close(received_cbs)
    /\ triggered' = TRUE
    /\ contra' = Tail(contra)
    /\ UNCHANGED <<config, branching, pos, num_sent, last_sent, finished,
                   kill_switch, stderr, pc, pull_id, replies, pipe, cb_sent,
                   sinkVars>>

HandleCbOpen ==
    /\ MayHandle("restore")
    /\ received_cbs' = on_cb_open(received_cbs)
    /\ triggered' = FALSE
    /\ contra' = Tail(contra)
    /\ UNCHANGED <<config, branching, pos, num_sent, last_sent, finished,
                   kill_switch, stderr, pc, pull_id, replies, pipe, cb_sent,
                   sinkVars>>

(***************************************************************************)
(* Specifications                                                          *)
(***************************************************************************)
SinkIdle ==
    /\ sinkEvent = <<>>
    /\ sinkReply = Pending

\* The sink runtimes of the three sinks, each driving its own sink
SinkKinds == {"clickhouse", "cb", "gbq"}

MaxSinkEvents == 2

AckInit ==
    /\ handled = [k \in SinkKinds |-> <<>>]
    /\ upstream = [k \in SinkKinds |-> <<>>]

AutoAckOf(k) ==
    IF k = "clickhouse" THEN ClickhouseSink_auto_ack
    ELSE IF k = "cb" THEN auto_ack
    ELSE GbqSink_auto_ack

\* The sink runtime of sink k handles its next event, whose on_event
\* returned reply.
SinkRuntimeHandle(k, reply) ==
    LET id == Len(handled[k]) + 1
    IN /\ Len(handled[k]) < MaxSinkEvents
       /\ handled' = [handled EXCEPT ![k] = Append(@, reply)]
       /\ upstream' = [upstream EXCEPT
                          ![k] = @ \o Propagate(AutoAckOf(k), reply, id)
                                   \o CbMsgs(reply, id)]

\* The events the sinks are driven with: one value without a cb entry,
\* whose metadata names no command or one command.
AckEvents == {<<<<NoEntry, m>>>> : m \in {NoEntry} \cup {Str(x) : x \in Commands}}

ClickhouseHandle ==
    \E event \in AckEvents :
        SinkRuntimeHandle("clickhouse", ClickhouseSink_on_event(event))

CbHandle ==
    \E event \in AckEvents : SinkRuntimeHandle("cb", on_event(event))

GbqHandle ==
    \E outcome \in GbqOutcomes :
        SinkRuntimeHandle("gbq", GbqSink_on_event(outcome))

(***************************************************************************)
(* The listener connectors: the TCP server (tcp/server.rs), the WebSocket  *)
(* server (ws/server.rs) and the Unix socket server                        *)
(* (unix_socket/server.rs), with the channel sink and channel source they  *)
(* register the halves of every accepted connection with.                  *)
(***************************************************************************)
MaxConnects == 2   \* calls of connect
MaxConns == 2      \* connections the peers open
MaxStops == 2      \* calls of on_stop

Servers == {[kind |-> k, tls |-> b] : k \in {"tcp", "ws"}, b \in BOOLEAN}
              \cup {[kind |-> "unix", tls |-> FALSE]}

\* StreamIdGen::default() and StreamIdGen::next_stream_id
StreamIdGenDefault == 1

next_stream_id(gen) == [id |-> gen, gen |-> gen + 1]

\* The address of the peer of connection c
PeerAddr(c) == [host |-> "192.0.2.7", port |-> 40000 + c]

\* The ConnectionMeta the writer of connection c is registered under
connection_meta(stream_id, c) ==
    IF server.kind = "unix" THEN [peer |-> stream_id] ELSE PeerAddr(c)

\* The metadata the reader of connection c attaches to its events
peer_meta(stream_id, c) ==
    IF server.kind = "unix" THEN [peer |-> Some(stream_id)]
    ELSE [peer |-> [host |-> Some(PeerAddr(c).host),
                    port |-> Some(PeerAddr(c).port)]]

\* The same metadata with an entry missing, or with a port that is no u16
Lacking(meta) ==
    IF server.kind = "unix" THEN {[peer |-> None]}
    ELSE {[peer |-> [host |-> None, port |-> meta.peer.port]],
          [peer |-> [host |-> meta.peer.host, port |-> None]],
          [peer |-> [host |-> None, port |-> None]]}

get_u16(v) == IF v # None /\ v[1] \in 0..65535 THEN v ELSE None

zip(a, b) == IF a # None /\ b # None THEN Some(<<a[1], b[1]>>) ELSE None

tcp_resolve_connection_meta(meta) ==
    LET z == zip(get_u16(meta.peer.port), meta.peer.host)
    IN IF z = None THEN None
       ELSE Some([host |-> z[1][2], port |-> z[1][1]])

ws_resolve_connection_meta(meta) ==
    LET z == zip(get_u16(meta.peer.port), meta.peer.host)
    IN IF z = None THEN None
       ELSE Some([host |-> z[1][2], port |-> z[1][1]])

unix_resolve_connection_meta(meta) ==
    IF meta.peer = None THEN None ELSE Some([peer |-> meta.peer[1]])

resolve_connection_meta(meta) ==
    IF server.kind = "tcp" THEN tcp_resolve_connection_meta(meta)
    ELSE IF server.kind = "ws" THEN ws_resolve_connection_meta(meta)
    ELSE unix_resolve_connection_meta(meta)

\* The channel sink: its maps after the registrations issued so far
WriterEntries == {i \in 1..Len(regs) : regs[i].op = "writer"}

Last(S) == CHOOSE i \in S : \A j \in S : j <= i

streams ==
    [s \in {regs[i].stream_id : i \in WriterEntries} |->
        regs[Last({i \in WriterEntries : regs[i].stream_id = s})].conn]

streams_meta ==
    [m \in {connection_meta(regs[i].stream_id, regs[i].conn) : i \in WriterEntries} |->
        regs[Last({i \in WriterEntries :
                     connection_meta(regs[i].stream_id, regs[i].conn) = m})].stream_id]

\* ChannelSink::on_event: the writers (named by their connection) the event
\* is handed to
ChannelSink_on_event(meta) ==
    LET cm == resolve_connection_meta(meta)
    IN IF cm # None /\ cm[1] \in DOMAIN streams_meta
       THEN {streams[streams_meta[cm[1]]]}
       ELSE {streams[s] : s \in DOMAIN streams}

\* Accept tasks
NoTask == [st |-> "none", pc |-> "none", gen |-> 0, stream_id |-> 0, conn |-> 0]

Spawned == [st |-> "running", pc |-> "head", gen |-> StreamIdGenDefault,
            stream_id |-> 0, conn |-> 0]

Ended == [NoTask EXCEPT !.st = "ended"]

Running(t) == tasks[t].st = "running"

At(t, p) == Running(t) /\ tasks[t].pc = p

ListenerInit ==
    /\ server \in Servers
    /\ accept_task = None
    /\ tasks = [t \in 1..MaxConnects |-> NoTask]
    /\ bound = {}
    /\ beacon = "running"
    /\ conns = 0
    /\ connect_calls = 0
    /\ stop_calls = 0
    /\ regs = <<>>
    /\ aborted = {}
    /\ data_from = {}
    /\ dispatched = [origin |-> 0, lacking |-> FALSE, resolved |-> None,
                     registered |-> None, to |-> {}]

ListenerIdle ==
    /\ server = [kind |-> "tcp", tls |-> FALSE]
    /\ accept_task = None
    /\ tasks = [t \in 1..MaxConnects |-> NoTask]
    /\ bound = {}
    /\ beacon = "running"
    /\ conns = 0
    /\ connect_calls = 0
    /\ stop_calls = 0
    /\ regs = <<>>
    /\ aborted = {}
    /\ data_from = {}
    /\ dispatched = [origin |-> 0, lacking |-> FALSE, resolved |-> None,
                     registered |-> None, to |-> {}]

\* accept_task.take() followed by cancel().await
CancelKeepsTask(ts, handle) == ts

Cancel(ts, handle) ==
    IF handle # None /\ ts[handle[1]].st = "running"
    THEN [ts EXCEPT ![handle[1]] = Ended]
    ELSE ts

Unbind(b, handle) == IF handle = None THEN b ELSE b \ {handle[1]}

\* Source::connect / Connector::connect: the bind (for the Unix socket, the
\* removal of the old file and the chmod as well) succeeds or fails.
connect ==
    /\ stop_calls = 0
    /\ connect_calls < MaxConnects
    /\ connect_calls' = connect_calls + 1
    /\ \E bind_ok \in BOOLEAN :
         LET t == connect_calls + 1
         IN IF bind_ok
            THEN /\ tasks' = [Cancel(tasks, accept_task) EXCEPT ![t] = Spawned]
                 /\ bound' = Unbind(bound, accept_task) \cup {t}
                 /\ accept_task' = Some(t)
            ELSE /\ tasks' = Cancel(tasks, accept_task)
                 /\ bound' = Unbind(bound, accept_task)
                 /\ accept_task' = None
    /\ UNCHANGED <<server, beacon, conns, stop_calls, regs, aborted, data_from,
                   dispatched>>

\* dropping the handle instead of cancelling it detaches the task
on_stop_detaches ==
    /\ stop_calls < MaxStops
    /\ stop_calls' = stop_calls + 1
    /\ accept_task' = None
    /\ UNCHANGED <<server, tasks, bound, beacon, conns, connect_calls, regs, aborted,
                   data_from, dispatched>>

on_stop ==
    /\ stop_calls < MaxStops
    /\ stop_calls' = stop_calls + 1
    /\ tasks' = Cancel(tasks, accept_task)
    /\ bound' = Unbind(bound, accept_task)
    /\ accept_task' = None
    /\ UNCHANGED <<server, beacon, conns, connect_calls, regs, aborted, data_from,
                   dispatched>>

\* The runtime stops reading (quiescence)
StopReading ==
    /\ beacon = "running"
    /\ beacon' = "stopped"
    /\ UNCHANGED <<server, accept_task, tasks, bound, conns, connect_calls,
                   stop_calls, regs, aborted, data_from, dispatched>>

\* while ctx.quiescence_beacon().continue_reading().await
LoopHead(t) ==
    /\ At(t, "head")
    /\ IF beacon = "running"
       THEN /\ tasks' = [tasks EXCEPT ![t].pc = "accepting"]
            /\ bound' = bound
       ELSE /\ tasks' = [tasks EXCEPT ![t] = Ended]
            /\ bound' = bound \ {t}
    /\ UNCHANGED <<server, accept_task, beacon, conns, connect_calls, stop_calls,
                   regs, aborted, data_from, dispatched>>

\* listener.accept().timeout(ACCEPT_TIMEOUT): a connection
Accept(t) ==
    /\ At(t, "accepting")
    /\ conns < MaxConns
    /\ conns' = conns + 1
    /\ LET n == next_stream_id(tasks[t].gen)
       IN tasks' = [tasks EXCEPT
                      ![t].gen = n.gen,
                      ![t].stream_id = n.id,
                      ![t].conn = conns + 1,
                      ![t].pc = IF server.tls THEN "tls"
                                ELSE IF server.kind = "ws" THEN "ws"
                                ELSE "register"]
    /\ UNCHANGED <<server, accept_task, bound, beacon, connect_calls, stop_calls,
                   regs, aborted, data_from, dispatched>>

\* ... the timeout: Err(_) => continue
AcceptTimeout(t) ==
    /\ At(t, "accepting")
    /\ tasks' = [tasks EXCEPT ![t].pc = "head"]
    /\ UNCHANGED <<server, accept_task, bound, beacon, conns, connect_calls,
                   stop_calls, regs, aborted, data_from, dispatched>>

\* ... an error: Ok(Err(e)) => return Err(e.into())
AcceptError(t) ==
    /\ At(t, "accepting")
    /\ tasks' = [tasks EXCEPT ![t] = Ended]
    /\ bound' = bound \ {t}
    /\ UNCHANGED <<server, accept_task, beacon, conns, connect_calls, stop_calls,
                   regs, aborted, data_from, dispatched>>

\* acceptor.accept(stream).await?
TlsHandshake(t) ==
    /\ At(t, "tls")
    /\ \E ok \in BOOLEAN :
         IF ok
         THEN /\ tasks' = [tasks EXCEPT
                             ![t].pc = IF server.kind = "ws" THEN "ws" ELSE "register"]
              /\ UNCHANGED <<bound, aborted>>
         ELSE /\ tasks' = [tasks EXCEPT ![t] = Ended]
              /\ bound' = bound \ {t}
              /\ aborted' = aborted \cup {tasks[t].conn}
    /\ UNCHANGED <<server, accept_task, beacon, conns, connect_calls, stop_calls,
                   regs, data_from, dispatched>>

\* accept_async(stream).await: with ? behind tls, with continue otherwise
WsHandshake(t) ==
    /\ At(t, "ws")
    /\ \E ok \in BOOLEAN :
         IF ok
         THEN /\ tasks' = [tasks EXCEPT ![t].pc = "register"]
              /\ UNCHANGED <<bound, aborted>>
         ELSE /\ aborted' = aborted \cup {tasks[t].conn}
              /\ IF server.tls
                 THEN /\ tasks' = [tasks EXCEPT ![t] = Ended]
                      /\ bound' = bound \ {t}
                 ELSE /\ tasks' = [tasks EXCEPT ![t].pc = "head",
                                                ![t].stream_id = 0,
                                                ![t].conn = 0]
                      /\ bound' = bound
    /\ UNCHANGED <<server, accept_task, beacon, conns, connect_calls, stop_calls,
                   regs, data_from, dispatched>>

\* register_stream_writer(..).await, then register_stream_reader(..)
ReaderFirst(stream_id, c) ==
    <<[op |-> "reader", stream_id |-> stream_id, conn |-> c],
      [op |-> "writer", stream_id |-> stream_id, conn |-> c]>>

Registrations(stream_id, c) ==
    <<[op |-> "writer", stream_id |-> stream_id, conn |-> c],
      [op |-> "reader", stream_id |-> stream_id, conn |-> c]>>

Register(t) ==
    /\ At(t, "register")
    /\ regs' = regs \o Registrations(tasks[t].stream_id, tasks[t].conn)
    /\ tasks' = [tasks EXCEPT ![t].pc = "head", ![t].stream_id = 0, ![t].conn = 0]
    /\ UNCHANGED <<server, accept_task, bound, beacon, conns, connect_calls,
                   stop_calls, aborted, data_from, dispatched>>

\* A registered reader reads from its connection and emits a Data reply
ReaderData ==
    /\ \E i \in 1..Len(regs) :
         /\ regs[i].op = "reader"
         /\ regs[i].conn \notin data_from
         /\ data_from' = data_from \cup {regs[i].conn}
    /\ UNCHANGED <<server, accept_task, tasks, bound, beacon, conns, connect_calls,
                   stop_calls, regs, aborted, dispatched>>

\* An outbound event reaches the channel sink.  It carries the metadata of
\* an event a reader emitted, whole or with an entry missing.
Dispatch ==
    /\ \E i \in 1..Len(regs) :
         /\ regs[i].op = "reader"
         /\ regs[i].conn \in data_from
         /\ LET meta == peer_meta(regs[i].stream_id, regs[i].conn)
            IN \E m \in {meta} \cup Lacking(meta) :
                 dispatched' =
                    [origin |-> regs[i].conn,
                     lacking |-> m # meta,
                     resolved |-> resolve_connection_meta(m),
                     registered |-> Some(connection_meta(regs[i].stream_id, regs[i].conn)),
                     to |-> ChannelSink_on_event(m)]
    /\ UNCHANGED <<server, accept_task, tasks, bound, beacon, conns, connect_calls,
                   stop_calls, regs, aborted, data_from>>

(***************************************************************************)
(* Connector builders: a configuration is the set of its keys, with what   *)
(* the builders look at beyond the keys (whether the url names a port,     *)
(* whether the tls certificate and key load).                              *)
(***************************************************************************)
ConnectorTypes == {"cb", "tcp_server", "ws_server", "unix_socket_server", "clickhouse"}

\* The fields of each connector's Config struct
KnownKeys(ty) ==
    IF ty = "cb" THEN {"path", "timeout", "expect_batched"}
    ELSE IF ty = "tcp_server" THEN {"url", "tls", "buf_size"}
    ELSE IF ty = "ws_server" THEN {"url", "tls"}
    ELSE IF ty = "unix_socket_server" THEN {"path", "permissions", "buf_size"}
    ELSE {}

\* ... those that are neither an Option nor have a serde default
RequiredKeys(ty) ==
    IF ty = "cb" THEN {}
    ELSE IF ty = "tcp_server" THEN {"url"}
    ELSE IF ty = "ws_server" THEN {"url"}
    ELSE IF ty = "unix_socket_server" THEN {"path"}
    ELSE {}

UnknownKey == "snot"

RawConfigs(ty) ==
    {[keys |-> ks, port |-> p, tls_loads |-> l] :
        ks \in SUBSET (KnownKeys(ty) \cup {UnknownKey}),
        p \in IF ty = "tcp_server" THEN BOOLEAN ELSE {TRUE},
        l \in IF ty \in {"tcp_server", "ws_server"} THEN BOOLEAN ELSE {TRUE}}

Built(what, error) == [result |-> what, error |-> error]

\* Config::new(raw): serde with deny_unknown_fields
Config_new_lenient(ty, raw) ==
    IF ~(RequiredKeys(ty) \subseteq raw.keys) THEN Built("err", "missing field")
    ELSE Built("config", "")

Config_new(ty, raw) ==
    IF ~(raw.keys \subseteq KnownKeys(ty)) THEN Built("err", "unknown field")
    ELSE IF ~(RequiredKeys(ty) \subseteq raw.keys) THEN Built("err", "missing field")
    ELSE Built("config", "")

load_server_config(ty, raw) ==
    IF "tls" \in raw.keys /\ ~raw.tls_loads THEN Built("err", "tls")
    ELSE Built("connector", "")

cb_build_cfg(raw) ==
    IF Config_new("cb", raw).result = "err" THEN Config_new("cb", raw)
    ELSE Built("connector", "")

tcp_build_cfg(raw) ==
    IF Config_new("tcp_server", raw).result = "err" THEN Config_new("tcp_server", raw)
    ELSE IF ~raw.port THEN Built("err", "Missing port for TCP server")
    ELSE load_server_config("tcp_server", raw)

ws_build_cfg(raw) ==
    IF Config_new("ws_server", raw).result = "err" THEN Config_new("ws_server", raw)
    ELSE load_server_config("ws_server", raw)

unix_build_cfg(raw) ==
    IF Config_new("unix_socket_server", raw).result = "err"
    THEN Config_new("unix_socket_server", raw)
    ELSE Built("connector", "")

\* clickhouse::Builder::from_config: the configuration is not looked at
clickhouse_from_config(raw) == Built("connector", "")

from_config(ty, raw) ==
    IF ty = "cb" THEN cb_build_cfg(raw)
    ELSE IF ty = "tcp_server" THEN tcp_build_cfg(raw)
    ELSE IF ty = "ws_server" THEN ws_build_cfg(raw)
    ELSE IF ty = "unix_socket_server" THEN unix_build_cfg(raw)
    ELSE clickhouse_from_config(raw)

NotBuilt ==
    [ty |-> "none", raw |-> [keys |-> {}, port |-> TRUE, tls_loads |-> TRUE],
     result |-> "none", error |-> "", source |-> "none", sink |-> "none"]

BuildInit == built = NotBuilt

Build ==
    /\ built.result = "none"
    /\ \E ty \in ConnectorTypes : \E raw \in RawConfigs(ty) :
         built' = [NotBuilt EXCEPT !.ty = ty, !.raw = raw,
                                   !.result = from_config(ty, raw).result,
                                   !.error = from_config(ty, raw).error]

\* CbSource::new: Ok, the file cannot be opened, or there is no path
CbSource_new(raw, opens) ==
    IF "path" \in raw.keys
    THEN IF opens THEN Built("created", "") ELSE Built("err", "io")
    ELSE Built("err", "Missing path key.")

\* Cb::create_source
create_source ==
    /\ built.ty = "cb"
    /\ built.result = "connector"
    /\ built.source = "none"
    /\ \E opens \in BOOLEAN :
         built' = [built EXCEPT !.source = CbSource_new(built.raw, opens).result,
                                !.error = CbSource_new(built.raw, opens).error]

\* Cb::create_sink
create_sink ==
    /\ built.ty = "cb"
    /\ built.result = "connector"
    /\ built.sink = "none"
    /\ built' = [built EXCEPT !.sink = "created"]

(***************************************************************************)
(* The BigQuery writer sink: the mapping of a table schema to a protobuf   *)
(* descriptor and a field map, the encoding of event values with it, and   *)
(* connect / on_event.                                                     *)
(***************************************************************************)
MaxFields == 2
MaxGbqEvents == 2

\* the i-th field of a schema is called FieldNames[i]
FieldNames == <<"a", "b", "c", "d">>

\* TableType; "Unknown" stands for a number TableType::from_i32 does not know
ScalarTypes == {"Int64", "Double", "Bool", "Bytes"}
StringTypes == {"String", "Date", "Time", "Datetime", "Timestamp", "Numeric",
                "Bignumeric", "Geography"}
SkippedTypes == {"Json", "Interval"}
DroppedTypes == {"Unspecified", "Unknown"}
LeafTypes == ScalarTypes \cup StringTypes \cup SkippedTypes \cup DroppedTypes

RawField(name, type, fields) == [name |-> name, type |-> type, fields |-> fields]

\* the field lists of the structs of the schemas below
SubSchemas ==
    { <<>>,
      <<RawField("a", "Int64", <<>>)>>,
      <<RawField("a", "Unspecified", <<>>), RawField("b", "String", <<>>)>> }

RawFields(name) ==
    {RawField(name, t, <<>>) : t \in LeafTypes}
        \cup {RawField(name, "Struct", s) : s \in SubSchemas}

RECURSIVE SchemasOfLen(_)
SchemasOfLen(n) ==
    IF n = 0 THEN {<<>>}
    ELSE {Append(s, f) : s \in SchemasOfLen(n - 1), f \in RawFields(FieldNames[n])}

TableSchemas == UNION {SchemasOfLen(n) : n \in 0..MaxFields}

\* the schemas the sink specification connects with
SinkSchemas == {s \in TableSchemas : Len(s) = 1 /\ s[1].type \in {"Int64", "Struct", "Json"}}

EmptyMap == [k \in {} |-> {}]

Put(m, key, value) == [k \in DOMAIN m \cup {key} |-> IF k = key THEN value ELSE m[k]]

\* map_field with a tag that also counts the fields it drops
RECURSIVE map_field_counting_dropped(_, _)
map_field_counting_dropped(schema_name, raw_fields) ==
    LET RECURSIVE loop(_, _, _)
        loop(i, tag, acc) ==
            IF i > Len(raw_fields) THEN acc
            ELSE LET raw_field == raw_fields[i]
                     type == raw_field.type
                 IN  IF type \in DroppedTypes THEN loop(i + 1, tag + 1, acc)
                     ELSE LET sub == IF type = "Struct"
                                     THEN map_field_counting_dropped(
                                              <<"struct", raw_field.name>>,
                                              raw_field.fields)
                                     ELSE [descriptor |-> <<>>, fields |-> EmptyMap]
                              grpc == IF type \in ScalarTypes THEN type
                                      ELSE IF type = "Struct" THEN "Message"
                                      ELSE "String"
                          IN  loop(i + 1, tag + 1,
                                [field |-> Append(acc.field,
                                             [name |-> raw_field.name,
                                              number |-> tag,
                                              type |-> grpc]),
                                 nested_type |-> IF type = "Struct"
                                                 THEN Append(acc.nested_type, sub.descriptor)
                                                 ELSE acc.nested_type,
                                 fields |-> Put(acc.fields, raw_field.name,
                                              [table_type |-> type,
                                               tag |-> tag,
                                               subfields |-> sub.fields])])
        r == loop(1, 1, [field |-> <<>>, nested_type |-> <<>>, fields |-> EmptyMap])
    IN  [descriptor |-> <<schema_name, r.field, r.nested_type>>, fields |-> r.fields]

\* map_field: the descriptor (its fields with their numbers, its nested
\* types) and the field map of a list of raw fields.  tag is a u16; the
\* schemas here stay far below its range.
RECURSIVE map_field(_, _)
map_field(schema_name, raw_fields) ==
    LET RECURSIVE loop(_, _, _)
        loop(i, tag, acc) ==
            IF i > Len(raw_fields) THEN acc
            ELSE LET raw_field == raw_fields[i]
                     type == raw_field.type
                 IN  IF type \in DroppedTypes THEN loop(i + 1, tag, acc)
                     ELSE LET sub == IF type = "Struct"
                                     THEN map_field(<<"struct", raw_field.name>>,
                                                    raw_field.fields)
                                     ELSE [descriptor |-> <<>>, fields |-> EmptyMap]
                              grpc == IF type \in ScalarTypes THEN type
                                      ELSE IF type = "Struct" THEN "Message"
                                      ELSE "String"
                          IN  loop(i + 1, tag + 1,
                                [field |-> Append(acc.field,
                                             [name |-> raw_field.name,
                                              number |-> tag,
                                              type |-> grpc]),
                                 nested_type |-> IF type = "Struct"
                                                 THEN Append(acc.nested_type, sub.descriptor)
                                                 ELSE acc.nested_type,
                                 fields |-> Put(acc.fields, raw_field.name,
                                              [table_type |-> type,
                                               tag |-> tag,
                                               subfields |-> sub.fields])])
        r == loop(1, 1, [field |-> <<>>, nested_type |-> <<>>, fields |-> EmptyMap])
    IN  [descriptor |-> <<schema_name, r.field, r.nested_type>>, fields |-> r.fields]

\* JsonToProtobufMapping::new
JsonToProtobufMapping_new(raw_fields) == map_field(<<"table">>, raw_fields)

\* Event values: a kind (Value::value_type) and, for an object, its entries
ValueKinds == {"i64", "f64", "bool", "string", "bytes", "null", "array"}

Scalar(kind) == [kind |-> kind, obj |-> EmptyMap]

Object(entries) == [kind |-> "object", obj |-> entries]

InnerValues ==
    {Scalar(k) : k \in ValueKinds}
        \cup {Object(EmptyMap), Object(Put(EmptyMap, "a", Scalar("i64"))),
              Object(Put(EmptyMap, "b", Scalar("f64")))}

EventValues ==
    {Scalar(k) : k \in ValueKinds}
        \cup {Object(EmptyMap)}
        \cup {Object(Put(EmptyMap, "a", v)) : v \in InnerValues}
        \cup {Object(Put(Put(EmptyMap, "a", v), "b", w)) :
                 v \in InnerValues, w \in {Scalar("i64"), Scalar("string")}}

GbqError(kind, a, b) == [kind |-> kind, a |-> a, b |-> b]

\* the accessors of Value, by kind
as_f64(kind) == kind = "f64"
as_i64_casting(kind) == kind \in {"i64", "f64"}
as_i64(kind) == kind = "i64"
as_bool(kind) == kind = "bool"
as_str(kind) == kind = "string"
as_object(kind) == kind = "object"
as_bytes(kind) == kind \in {"bytes", "string"}

\* encode_field: the results it can return.  A result is an error, or the
\* entries written to the buffer: <<tag, wire type, entries of a struct>>.
\* An object is iterated in the order of its hash map, so when several of
\* its entries fail, any of their errors can be the one returned.
RECURSIVE encode_field(_, _)
RECURSIVE encode_entries(_, _)
encode_entries(obj, fields) ==
    LET rs == UNION {encode_field(obj[k], fields[k]) : k \in DOMAIN obj \cap DOMAIN fields}
        errs == {r \in rs : r.error # None}
    IN  IF errs # {} THEN {[error |-> r.error, out |-> {}] : r \in errs}
        ELSE {[error |-> None, out |-> UNION {r.out : r \in rs}]}

encode_field(val, field) ==
    LET type == field.table_type
        written(wire, inner) == {[error |-> None, out |-> {<<field.tag, wire, inner>>}]}
        mismatch(expected) ==
            {[error |-> Some(GbqError("BigQueryTypeMismatch", expected, val.kind)),
              out |-> {}]}
    IN  IF type = "Double"
            THEN IF as_f64(val.kind) THEN written("SixtyFourBit", {}) ELSE mismatch("f64")
        ELSE IF type = "Int64"
            THEN IF as_i64(val.kind) THEN written("Varint", {}) ELSE mismatch("i64")
        ELSE IF type = "Bool"
            THEN IF as_bool(val.kind) THEN written("Varint", {}) ELSE mismatch("bool")
        ELSE IF type \in StringTypes
            THEN IF as_str(val.kind) THEN written("LengthDelimited", {})
                 ELSE mismatch("string")
        ELSE IF type = "Struct"
            THEN IF as_object(val.kind)
                 THEN {IF r.error # None THEN r
                       ELSE [error |-> None,
                             out |-> {<<field.tag, "LengthDelimited", r.out>>}] :
                          r \in encode_entries(val.obj, field.subfields)}
                 ELSE mismatch("object")
        ELSE IF type = "Bytes"
            THEN IF as_bytes(val.kind) THEN written("LengthDelimited", {})
                 ELSE mismatch("bytes")
        ELSE {[error |-> None, out |-> {}]}

\* JsonToProtobufMapping::map
JsonToProtobufMapping_map(m, value) ==
    IF as_object(value.kind) THEN encode_entries(value.obj, m.fields)
    ELSE {[error |-> Some(GbqError("BigQueryTypeMismatch", "object", value.kind)),
           out |-> {}]}

NoGbqResult ==
    [call |-> 0, op |-> "none", value |-> None, outcome |-> "none", reply |-> None,
     error |-> None]

\* GbqSink::new
GbqSink_new ==
    /\ client = FALSE
    /\ write_stream = FALSE
    /\ mapping = None
    /\ connectivity = "initialized"
    /\ requests = <<>>
    /\ notified = 0
    /\ gbq_result = NoGbqResult

GbqIdle == table_schema = <<>> /\ GbqSink_new

\* what connect can meet: the token, the channel or the write stream fails,
\* the write stream carries no table schema, or all of it succeeds
ConnectOutcomes == {"token", "channel", "write_stream", "no_schema", "ok"}

\* GbqSink::connect; the runtime calls it at start and to reconnect
GbqSink_connect ==
    /\ connectivity # "connected"
    /\ \E outcome \in ConnectOutcomes :
        IF outcome = "ok"
        THEN /\ mapping' = Some(JsonToProtobufMapping_new(table_schema))
             /\ write_stream' = TRUE
             /\ client' = TRUE
             /\ connectivity' = "connected"
             /\ gbq_result' = [gbq_result EXCEPT !.op = "connect", !.value = None,
                                                 !.outcome = outcome, !.reply = None,
                                                 !.error = None]
        ELSE /\ gbq_result' = [gbq_result EXCEPT
                                 !.op = "connect", !.value = None,
                                 !.outcome = outcome, !.reply = None,
                                 !.error = Some(GbqError(
                                     IF outcome = "no_schema" THEN "GbqSinkFailed"
                                     ELSE outcome,
                                     IF outcome = "no_schema"
                                     THEN "Table schema was not provided" ELSE "", ""))]
             /\ UNCHANGED <<mapping, write_stream, client, connectivity>>
    /\ UNCHANGED <<table_schema, requests, notified>>

\* an early return that first sends a request
ReturnedAfterSending(call, value, outcome, reply, error) ==
    /\ gbq_result' = [call |-> call, op |-> "on_event", value |-> Some(value),
                      outcome |-> outcome, reply |-> reply, error |-> error]
    /\ requests' = Append(requests, [rows |-> {}, connectivity |-> connectivity])
    /\ UNCHANGED <<table_schema, client, write_stream, mapping, connectivity, notified>>

\* on_event returned without calling append_rows
Returned(call, value, outcome, reply, error) ==
    /\ gbq_result' = [call |-> call, op |-> "on_event", value |-> Some(value),
                      outcome |-> outcome, reply |-> reply, error |-> error]
    /\ UNCHANGED <<table_schema, client, write_stream, mapping, connectivity,
                   requests, notified>>

\* GbqSink::on_event for an event of one value; rpc is what the append_rows
\* call meets.  The sink runtime calls it for each event it receives.
GbqOnEvent ==
    /\ gbq_result.call < MaxGbqEvents
    /\ \E value \in EventValues, rpc \in GbqOutcomes \cup {"append_error"} :
        LET call == gbq_result.call + 1
            unavailable(what) ==
                Returned(call, value, "unavailable", None,
                         Some(GbqError("ClientNotAvailable", "BigQuery", what)))
        IN  IF ~client THEN unavailable("The client is not connected")
            ELSE IF ~write_stream THEN unavailable("The write stream is not available")
            ELSE IF mapping = None THEN unavailable("The mapping is not available")
            ELSE \E row \in JsonToProtobufMapping_map(mapping[1], value) :
                IF row.error # None
                THEN Returned(call, value, "mapping", None, row.error)
                ELSE /\ requests' = Append(requests, [rows |-> row.out,
                                                      connectivity |-> connectivity])
                     /\ IF rpc \in {"append_timeout", "next_timeout"}
                        THEN \* ctx.notifier.connection_lost()
                             /\ notified' = notified + 1
                             /\ connectivity' = "lost"
                        ELSE UNCHANGED <<notified, connectivity>>
                     /\ gbq_result' =
                            [call |-> call, op |-> "on_event", value |-> Some(value),
                             outcome |-> rpc,
                             reply |-> IF rpc = "append_error" THEN None
                                       ELSE Some(GbqSink_on_event(rpc)),
                             error |-> IF rpc = "append_error"
                                       THEN Some(GbqError("Status", "", ""))
                                       ELSE None]
                     /\ UNCHANGED <<table_schema, client, write_stream, mapping>>

(***************************************************************************)
(* The HTTP request builder (http/meta.rs): new merges the headers of the  *)
(* config and of the event's meta, settles chunked mode, the content type  *)
(* and the codec, append serializes a value and finalize ends the body.    *)
(***************************************************************************)
MaxAppends == 2
MaxCalls == 2

BYTE_STREAM == "application/octet-stream"

\* MimeCodecMap: the codec of a mime type and the mime type of a codec.
\* "syslog" stands for a codec without a mime type, "image/png" for a mime
\* type without a codec.
Codecs == {"json", "string", "syslog"}

get_codec_name(mime) ==
    IF mime = "application/json" THEN Some("json")
    ELSE IF mime = "text/plain" THEN Some("string")
    ELSE None

get_mime_type(codec) ==
    IF codec = "json" THEN Some("application/json")
    ELSE IF codec = "string" THEN Some("text/plain")
    ELSE None

\* the headers of the config: a name with its list of values (Either::Left),
\* a single value (Either::Right) being a list of one
ConfigHeaderChoices ==
    { <<"cake", <<"black forest">>>>,
      <<"cake", <<"black forest", "cheese">>>>,
      <<"transfer-encoding", <<"chunked">>>>,
      <<"transfer-encoding", <<"gzip">>>>,
      <<"transfer-encoding", <<"gzip, chunked">>>>,
      <<"content-type", <<"text/plain">>>>,
      <<"content-type", <<"image/png">>>>,
      <<"authorization", <<"Basic config">>>>,
      <<"content-length", <<"3">>>> }

ConfigHeaders == {EmptyMap} \cup {Put(EmptyMap, c[1], c[2]) : c \in ConfigHeaderChoices}

\* a value of request.headers in the event's meta: a string, an array whose
\* elements are strings or something else, or a value of another kind
Elem(is_str, v) == [str |-> is_str, v |-> v]

MetaValue(kind, items) == [kind |-> kind, items |-> items]

MetaHeaderChoices ==
    { <<"cake", MetaValue("string", <<Elem(TRUE, "key lime")>>)>>,
      <<"cake", MetaValue("array", <<Elem(TRUE, "cheese"), Elem(TRUE, "cheese")>>)>>,
      <<"cake", MetaValue("array", <<Elem(TRUE, "cheese"), Elem(FALSE, "1")>>)>>,
      <<"cake", MetaValue("other", <<>>)>>,
      <<"transfer-encoding", MetaValue("string", <<Elem(TRUE, "chunked")>>)>>,
      <<"transfer-encoding", MetaValue("string", <<Elem(TRUE, "gzip")>>)>>,
      <<"content-type", MetaValue("string", <<Elem(TRUE, "application/json")>>)>>,
      <<"content-type", MetaValue("array", <<Elem(TRUE, "text/plain")>>)>>,
      <<"authorization", MetaValue("string", <<Elem(TRUE, "Bearer meta")>>)>>,
      <<"content-length", MetaValue("string", <<Elem(TRUE, "3")>>)>> }

MetaHeaders == {EmptyMap} \cup {Put(EmptyMap, c[1], c[2]) : c \in MetaHeaderChoices}

\* what new is called with.  target: the method and url of the meta are
\* absent, valid, or not usable; auth: config.auth yields a header value;
\* eos: what the serializer's finish_stream returns.
HttpInputs ==
    [headers : ConfigHeaders, meta_headers : MetaHeaders, codec : Codecs,
     auth : BOOLEAN, target : {"absent", "valid", "invalid"}, eos : {<<>>, <<"eos">>}]

AuthHeaderValue == "Basic auth"

\* Request: append_header, insert_header, remove_header, header
append_header_replacing(h, name, values) == Put(h, name, values)

append_header(h, name, values) ==
    Put(h, name, IF name \in DOMAIN h THEN h[name] \o values ELSE values)

insert_header(h, name, values) == Put(h, name, values)

remove_header(h, name) == [n \in DOMAIN h \ {name} |-> h[n]]

header(h, name) == IF name \in DOMAIN h THEN Some(h[name]) ELSE None

HeaderValues_last(values) == values[Len(values)]

\* Request::content_type: the mime type of the Content-Type header
content_type(h) ==
    IF header(h, "content-type") = None THEN None
    ELSE Some(HeaderValues_last(h["content-type"]))

\* the config's headers, one append_header per value
RECURSIVE append_each(_, _, _)
append_each(h, name, values) ==
    IF values = <<>> THEN h
    ELSE append_each(append_header(h, name, <<Head(values)>>), name, Tail(values))

RECURSIVE config_headers(_, _, _)
config_headers(h, headers, names) ==
    IF names = {} THEN h
    ELSE LET name == CHOOSE n \in names : TRUE
         IN  config_headers(append_each(h, name, headers[name]), headers,
                            names \ {name})

\* the strings of a list of elements, in order
RECURSIVE Strings(_)
Strings(items) ==
    IF items = <<>> THEN <<>>
    ELSE IF Head(items).str THEN <<Head(items).v>> \o Strings(Tail(items))
    ELSE Strings(Tail(items))

\* the meta's headers: the strings of an array in one append_header, a
\* string in one append_header, anything else is passed over
RECURSIVE meta_headers(_, _, _)
meta_headers(h, headers, names) ==
    IF names = {} THEN h
    ELSE LET name == CHOOSE n \in names : TRUE
             values == headers[name]
             next == IF values.kind \in {"array", "string"}
                     THEN append_header(h, name, Strings(values.items))
                     ELSE h
         IN  meta_headers(next, headers, names \ {name})

\* chunked mode: the last value of Transfer-Encoding is "chunked"
is_chunked(h) ==
    IF header(h, "transfer-encoding") = None THEN FALSE
    ELSE HeaderValues_last(h["transfer-encoding"]) = "chunked"

codec_overwrite_unfiltered(header_content_type, configured_codec) ==
    IF header_content_type = None THEN None
    ELSE get_codec_name(header_content_type[1])

\* the codec of the Content-Type header, if it is not the configured one
codec_overwrite(header_content_type, configured_codec) ==
    IF header_content_type = None THEN None
    ELSE LET codec == get_codec_name(header_content_type[1])
         IN  IF codec # None /\ codec[1] # configured_codec THEN codec ELSE None

codec_content_type(overwrite, configured_codec) ==
    or_else(IF overwrite # None THEN get_mime_type(overwrite[1]) ELSE None,
            get_mime_type(configured_codec))

Data(chunks) == [mode |-> "Data", data |-> chunks]

Chunked == [mode |-> "Chunked", data |-> <<>>]

NoBody == [kind |-> "empty", data |-> <<>>, len |-> None]

NoBuilder ==
    [state |-> "none", error |-> "", request |-> None, body_data |-> Data(<<>>),
     codec_overwrite |-> None, taken |-> None, returned |-> None]

NoChannel == [open |-> FALSE, sent |-> <<>>, closed |-> FALSE]

\* HttpRequestBuilder::new
HttpRequestBuilder_new(in) ==
    IF in.target = "invalid"
    THEN [NoBuilder EXCEPT !.state = "error", !.error = "Invalid HTTP Method"]
    ELSE
    LET configured == config_headers(EmptyMap, in.headers, DOMAIN in.headers)
        merged == meta_headers(configured, in.meta_headers, DOMAIN in.meta_headers)
        chunked == is_chunked(merged)
        header_content_type == content_type(merged)
        overwrite == codec_overwrite(header_content_type, in.codec)
        mime == or_else(or_else(header_content_type,
                                codec_content_type(overwrite, in.codec)),
                        Some(BYTE_STREAM))
        typed == IF content_type(merged) = None
                 THEN insert_header(merged, "content-type", <<mime[1]>>)
                 ELSE merged
        authed == IF in.auth
                  THEN insert_header(typed, "authorization", <<AuthHeaderValue>>)
                  ELSE typed
        request ==
            IF chunked
            THEN [headers |-> remove_header(authed, "content-length"),
                  body |-> [kind |-> "streaming", data |-> <<>>, len |-> None]]
            ELSE [headers |-> authed, body |-> NoBody]
    IN  [NoBuilder EXCEPT !.state = "built",
                          !.request = Some(request),
                          !.body_data = IF chunked THEN Chunked ELSE Data(<<>>),
                          !.codec_overwrite = overwrite]

\* EventSerializer: the chunks a value is serialized to with a codec, and
\* the bytes that end the stream
serialize(value, codec) ==
    IF value = "v1" THEN <<[of |-> value, codec |-> codec, part |-> 1, len |-> 1]>>
    ELSE <<[of |-> value, codec |-> codec, part |-> 1, len |-> 2],
           [of |-> value, codec |-> codec, part |-> 2, len |-> 3]>>

finish_stream(eos) ==
    IF eos = <<>> THEN <<>>
    ELSE <<[of |-> "eos", codec |-> "", part |-> 1, len |-> 1]>>

AppendValues == {"v1", "v2"}

RECURSIVE FixedBodyReader_len(_)
FixedBodyReader_len(data) ==
    IF data = <<>> THEN 0 ELSE Head(data).len + FixedBodyReader_len(Tail(data))

\* the builder and its chunk channel after append_data
append_data_in_front(b, ch, chunks) ==
    IF b.body_data.mode = "Chunked"
    THEN <<b, [ch EXCEPT !.sent = chunks \o @]>>
    ELSE <<[b EXCEPT !.body_data = Data(chunks \o b.body_data.data)], ch>>

append_data(b, ch, chunks) ==
    IF b.body_data.mode = "Chunked"
    THEN <<b, [ch EXCEPT !.sent = @ \o chunks]>>
    ELSE <<[b EXCEPT !.body_data = Data(b.body_data.data \o chunks)], ch>>

HttpIdle ==
    /\ http_in = <<>>
    /\ builder = NoBuilder
    /\ channel = NoChannel
    /\ appended = <<>>
    /\ handed = <<>>

HttpInit ==
    /\ http_in \in HttpInputs
    /\ builder = NoBuilder
    /\ channel = NoChannel
    /\ appended = <<>>
    /\ handed = <<>>

HttpNew ==
    /\ builder.state = "none"
    /\ builder' = HttpRequestBuilder_new(http_in)
    /\ channel' = [channel EXCEPT !.open = builder'.body_data.mode = "Chunked"]
    /\ UNCHANGED <<http_in, appended, handed>>

\* HttpRequestBuilder::append
HttpAppend ==
    /\ builder.state = "built"
    /\ Len(appended) < MaxAppends
    /\ \E value \in AppendValues :
        LET codec == IF builder.codec_overwrite # None THEN builder.codec_overwrite[1]
                     ELSE http_in.codec
            after == append_data(builder, channel, serialize(value, codec))
        IN  /\ builder' = after[1]
            /\ channel' = after[2]
            /\ appended' = Append(appended, value)
    /\ UNCHANGED <<http_in, handed>>

\* the request, or nothing, a call hands to its caller
Handed(op, request) == [op |-> op, request |-> request]

\* HttpRequestBuilder::get_chunked_request
get_chunked_request_again ==
    /\ builder.state \in {"built", "finalized"}
    /\ Len(handed) < MaxCalls
    /\ LET taken == IF channel.open
                    THEN IF builder.request # None THEN builder.request
                         ELSE builder.taken
                    ELSE None
       IN  /\ builder' = [builder EXCEPT !.request = None,
                                         !.taken = IF taken # None THEN taken ELSE @]
           /\ handed' = Append(handed, Handed("get_chunked_request", taken))
    /\ UNCHANGED <<http_in, channel, appended>>

get_chunked_request ==
    /\ builder.state \in {"built", "finalized"}
    /\ Len(handed) < MaxCalls
    /\ LET taken == IF builder.body_data.mode = "Chunked" THEN builder.request
                    ELSE None
       IN  /\ builder' = [builder EXCEPT
                            !.request = IF builder.body_data.mode = "Chunked"
                                        THEN None ELSE @,
                            !.taken = IF taken # None THEN taken ELSE @]
           /\ handed' = Append(handed, Handed("get_chunked_request", taken))
    /\ UNCHANGED <<http_in, channel, appended>>

\* HttpRequestBuilder::finalize
HttpFinalize ==
    /\ builder.state \in {"built", "finalized"}
    /\ Len(handed) < MaxCalls
    /\ LET rest == finish_stream(http_in.eos)
           after == IF rest # <<>> THEN append_data(builder, channel, rest)
                    ELSE <<builder, channel>>
           b == after[1]
           data == b.body_data.data
           request ==
               IF b.body_data.mode = "Data" /\ b.request # None
               THEN Some([b.request[1] EXCEPT
                            !.body = [kind |-> "fixed", data |-> data,
                                      len |-> Some(FixedBodyReader_len(data))]])
               ELSE b.request
       IN  /\ builder' = [b EXCEPT !.state = "finalized", !.body_data = Data(<<>>),
                                   !.request = None,
                                   !.returned = IF request # None THEN request ELSE @]
           /\ channel' = IF b.body_data.mode = "Chunked"
                         THEN [after[2] EXCEPT !.closed = TRUE]
                         ELSE after[2]
           /\ handed' = Append(handed, Handed("finalize", request))
    /\ UNCHANGED <<http_in, appended>>

(***************************************************************************)
(* The Kafka onramp (onramp/kafka.rs): onramp_loop waits for a first       *)
(* pipeline, then takes messages from the consumer stream and, once per    *)
(* message, polls its control channel before it sends the event.           *)
(***************************************************************************)
MaxCtl == 3
MaxKafkaMsgs == 2

PipelineIds == {"p1", "p2"}

\* what the consumer stream yields: a message with a payload, a message
\* without one, or an error
MessageKinds == {"payload", "no_payload", "error"}

Connect(n, pipeline) == [n |-> n, kind |-> "Connect", id |-> pipeline]

Disconnect(n, pipeline) == [n |-> n, kind |-> "Disconnect", id |-> pipeline]

NoCtlLog == [sent |-> 0, received |-> {}, answers |-> {}]

\* pipelines.retain(|(pipeline, _)| pipeline != &id)
retain(ps, pipeline) == SelectSeq(ps, LAMBDA p : p # pipeline)

\* the control message at the head of the channel is received
Received(log, msg) == [log EXCEPT !.received = @ \cup {msg.n}]

\* tx.send(value) on the reply channel of a Disconnect
Answered(log, msg, value) ==
    [log EXCEPT !.answers = @ \cup {[n |-> msg.n, value |-> value]}]

\* `while pipelines.is_empty() { match rx.recv()? { ... } }`: the loop's
\* state when it is left; "blocked" while recv has nothing to return
RECURSIVE wait_for_pipelines(_, _, _, _)
wait_for_pipelines(ps, queue, log, alive) ==
    IF ps # <<>> THEN [result |-> "ok", pipelines |-> ps, rx |-> queue, log |-> log]
    ELSE IF queue = <<>>
    THEN [result |-> IF alive THEN "blocked" ELSE "failed",
          pipelines |-> ps, rx |-> queue, log |-> log]
    ELSE LET msg == Head(queue)
         IN  IF msg.kind = "Connect"
             THEN wait_for_pipelines(Append(ps, msg.id), Tail(queue),
                                     Received(log, msg), alive)
             ELSE [result |-> "returned", pipelines |-> ps, rx |-> Tail(queue),
                   log |-> Answered(Received(log, msg), msg, TRUE)]

\* `match rx.try_recv() { ... }`
try_recv(ps, queue, log, alive) ==
    IF queue = <<>>
    THEN [result |-> IF alive THEN "ok" ELSE "failed",
          pipelines |-> ps, rx |-> queue, log |-> log]
    ELSE LET msg == Head(queue)
             rest == Received(log, msg)
         IN  IF msg.kind = "Connect"
             THEN [result |-> "ok", pipelines |-> Append(ps, msg.id),
                   rx |-> Tail(queue), log |-> rest]
             ELSE LET kept == retain(ps, msg.id)
                  IN  IF kept = <<>>
                      THEN [result |-> "break", pipelines |-> kept,
                            rx |-> Tail(queue), log |-> Answered(rest, msg, TRUE)]
                      ELSE [result |-> "ok", pipelines |-> kept,
                            rx |-> Tail(queue), log |-> Answered(rest, msg, FALSE)]

KafkaIdle ==
    /\ kafka_config = [sync |-> FALSE]
    /\ kafka_pc = "idle"
    /\ pipelines = <<>>
    /\ event_id = 0
    /\ rx = <<>>
    /\ ctl_log = NoCtlLog
    /\ tx_alive = FALSE
    /\ consumed = <<>>
    /\ sent_events = <<>>
    /\ unacked = {}

\* Kafka::start: the control channel is made and the loop's thread spawned
KafkaStart ==
    /\ kafka_config \in [sync : BOOLEAN]
    /\ kafka_pc = "wait_first"
    /\ pipelines = <<>>
    /\ event_id = 0
    /\ rx = <<>>
    /\ ctl_log = NoCtlLog
    /\ tx_alive = TRUE
    /\ consumed = <<>>
    /\ sent_events = <<>>
    /\ unacked = {}

OnrampRunning == kafka_pc \in {"wait_first", "stream_wait"}

\* a holder of the sender sends a control message; the channel has no
\* capacity, so the message waits in the send until the loop receives it
CtlSend ==
    /\ OnrampRunning
    /\ tx_alive
    /\ ctl_log.sent < MaxCtl
    /\ \E kind \in {"Connect", "Disconnect"}, pipeline \in PipelineIds :
        LET n == ctl_log.sent + 1
        IN  /\ rx' = Append(rx, IF kind = "Connect" THEN Connect(n, pipeline)
                                ELSE Disconnect(n, pipeline))
            /\ ctl_log' = [ctl_log EXCEPT !.sent = n]
    /\ UNCHANGED <<kafka_config, kafka_pc, pipelines, event_id, tx_alive, consumed,
                   sent_events, unacked>>

\* the last sender is dropped
DropSender ==
    /\ OnrampRunning
    /\ tx_alive
    /\ rx = <<>>
    /\ tx_alive' = FALSE
    /\ UNCHANGED <<kafka_config, kafka_pc, pipelines, event_id, rx, ctl_log, consumed,
                   sent_events, unacked>>

\* onramp_loop before the stream: the first wait for pipelines
WaitFirst ==
    /\ kafka_pc = "wait_first"
    /\ LET after == wait_for_pipelines(pipelines, rx, ctl_log, tx_alive)
       IN  /\ after.result # "blocked"
           /\ kafka_pc' = IF after.result = "ok" THEN "stream_wait"
                          ELSE IF after.result = "returned" THEN "done"
                          ELSE "failed"
           /\ pipelines' = after.pipelines
           /\ rx' = after.rx
           /\ ctl_log' = after.log
    /\ UNCHANGED <<kafka_config, event_id, tx_alive, consumed, sent_events, unacked>>

\* one iteration of `for m in stream.wait()`: the stream yields m, the
\* second wait for pipelines, try_recv, and the event of m is sent
Iterate ==
    /\ kafka_pc = "stream_wait"
    /\ Len(consumed) < MaxKafkaMsgs
    /\ \E m \in MessageKinds :
        LET waited == wait_for_pipelines(pipelines, rx, ctl_log, tx_alive)
            polled == IF waited.result = "ok"
                      THEN try_recv(waited.pipelines, waited.rx, waited.log, tx_alive)
                      ELSE waited
            send == polled.result = "ok" /\ m = "payload"
        IN  /\ waited.result # "blocked"
            /\ consumed' = Append(consumed, m)
            /\ kafka_pc' = IF polled.result = "ok" THEN "stream_wait"
                           ELSE IF polled.result = "failed" THEN "failed"
                           ELSE "done"
            /\ pipelines' = polled.pipelines
            /\ rx' = polled.rx
            /\ ctl_log' = polled.log
            /\ event_id' = IF send THEN event_id + 1 ELSE event_id
            /\ sent_events' = IF send
                              THEN Append(sent_events,
                                          [id |-> event_id + 1,
                                           message |-> Len(consumed) + 1,
                                           pipelines |-> polled.pipelines])
                              ELSE sent_events
            /\ unacked' = IF send THEN unacked \cup {event_id + 1} ELSE unacked
    /\ UNCHANGED <<kafka_config, tx_alive>>

\* the pipelines have fully handled an event
KafkaAck ==
    /\ \E e \in unacked : unacked' = unacked \ {e}
    /\ UNCHANGED <<kafka_config, kafka_pc, pipelines, event_id, rx, ctl_log, tx_alive,
                   consumed, sent_events>>

Init ==
    /\ SourceInit
    /\ SinkIdle
    /\ AckInit
    /\ ListenerIdle
    /\ BuildInit
    /\ GbqIdle
    /\ HttpIdle
    /\ KafkaIdle

Next ==
    \/ PullLine /\ UNCHANGED <<ackVars, listenerVars, buildVars, gbqVars, httpVars, kafkaVars>>
    \/ PullEndStream /\ UNCHANGED <<ackVars, listenerVars, buildVars, gbqVars, httpVars, kafkaVars>>
    \/ PullFinished /\ UNCHANGED <<ackVars, listenerVars, buildVars, gbqVars, httpVars, kafkaVars>>
    \/ Wake /\ UNCHANGED <<ackVars, listenerVars, buildVars, gbqVars, httpVars, kafkaVars>>
    \/ Deliver /\ UNCHANGED <<ackVars, listenerVars, buildVars, gbqVars, httpVars, kafkaVars>>
    \/ HandleAck /\ UNCHANGED <<ackVars, listenerVars, buildVars, gbqVars, httpVars, kafkaVars>>
    \/ HandleFail /\ UNCHANGED <<ackVars, listenerVars, buildVars, gbqVars, httpVars, kafkaVars>>
    \/ HandleCbClose /\ UNCHANGED <<ackVars, listenerVars, buildVars, gbqVars, httpVars, kafkaVars>>
    \/ HandleCbOpen /\ UNCHANGED <<ackVars, listenerVars, buildVars, gbqVars, httpVars, kafkaVars>>

Spec == Init /\ [][Next]_vars

\* The source system at rest
SourceIdle ==
    /\ config = [path |-> <<>>, timeout |-> 0, expect_batched |-> FALSE]
    /\ branching = FALSE
    /\ pos = 0
    /\ num_sent = 0
    /\ last_sent = 0
    /\ received_cbs = ReceivedCbsDefault
    /\ finished = FALSE
    /\ kill_switch = "running"
    /\ stderr = NoStderr
    /\ pc = "running"
    /\ pull_id = FirstPullId
    /\ triggered = FALSE
    /\ replies = <<>>
    /\ pipe = <<>>
    /\ contra = <<>>
    /\ cb_sent = <<>>

\* CbSink::on_event as a function of the event
InitSink ==
    /\ SinkInit
    /\ SourceIdle
    /\ AckInit
    /\ ListenerIdle
    /\ BuildInit
    /\ GbqIdle
    /\ HttpIdle
    /\ KafkaIdle

NextSink == SinkOnEvent /\ UNCHANGED <<sourceVars, ackVars, listenerVars, buildVars, gbqVars, httpVars, kafkaVars>>

SpecSink == InitSink /\ [][NextSink]_vars

\* The sink runtimes of the Clickhouse, CB and BigQuery sinks
InitAutoAck ==
    /\ AckInit
    /\ SourceIdle
    /\ SinkIdle
    /\ ListenerIdle
    /\ BuildInit
    /\ GbqIdle
    /\ HttpIdle
    /\ KafkaIdle

NextAutoAck ==
    \/ ClickhouseHandle /\ UNCHANGED <<sourceVars, sinkVars, listenerVars, buildVars, gbqVars, httpVars, kafkaVars>>
    \/ CbHandle /\ UNCHANGED <<sourceVars, sinkVars, listenerVars, buildVars, gbqVars, httpVars, kafkaVars>>
    \/ GbqHandle /\ UNCHANGED <<sourceVars, sinkVars, listenerVars, buildVars, gbqVars, httpVars, kafkaVars>>

SpecAutoAck == InitAutoAck /\ [][NextAutoAck]_vars

\* The listener connectors
InitListener ==
    /\ ListenerInit
    /\ SourceIdle
    /\ SinkIdle
    /\ AckInit
    /\ BuildInit
    /\ GbqIdle
    /\ HttpIdle
    /\ KafkaIdle

NextListener ==
    \/ connect /\ UNCHANGED <<sourceVars, sinkVars, ackVars, buildVars, gbqVars, httpVars, kafkaVars>>
    \/ on_stop /\ UNCHANGED <<sourceVars, sinkVars, ackVars, buildVars, gbqVars, httpVars, kafkaVars>>
    \/ StopReading /\ UNCHANGED <<sourceVars, sinkVars, ackVars, buildVars, gbqVars, httpVars, kafkaVars>>
    \/ \E t \in 1..MaxConnects : LoopHead(t)
          /\ UNCHANGED <<sourceVars, sinkVars, ackVars, buildVars, gbqVars, httpVars, kafkaVars>>
    \/ \E t \in 1..MaxConnects : Accept(t)
          /\ UNCHANGED <<sourceVars, sinkVars, ackVars, buildVars, gbqVars, httpVars, kafkaVars>>
    \/ \E t \in 1..MaxConnects : AcceptTimeout(t)
          /\ UNCHANGED <<sourceVars, sinkVars, ackVars, buildVars, gbqVars, httpVars, kafkaVars>>
    \/ \E t \in 1..MaxConnects : AcceptError(t)
          /\ UNCHANGED <<sourceVars, sinkVars, ackVars, buildVars, gbqVars, httpVars, kafkaVars>>
    \/ \E t \in 1..MaxConnects : TlsHandshake(t)
          /\ UNCHANGED <<sourceVars, sinkVars, ackVars, buildVars, gbqVars, httpVars, kafkaVars>>
    \/ \E t \in 1..MaxConnects : WsHandshake(t)
          /\ UNCHANGED <<sourceVars, sinkVars, ackVars, buildVars, gbqVars, httpVars, kafkaVars>>
    \/ \E t \in 1..MaxConnects : Register(t)
          /\ UNCHANGED <<sourceVars, sinkVars, ackVars, buildVars, gbqVars, httpVars, kafkaVars>>
    \/ ReaderData /\ UNCHANGED <<sourceVars, sinkVars, ackVars, buildVars, gbqVars, httpVars, kafkaVars>>
    \/ Dispatch /\ UNCHANGED <<sourceVars, sinkVars, ackVars, buildVars, gbqVars, httpVars, kafkaVars>>

SpecListener == InitListener /\ [][NextListener]_vars

\* The accept task is scheduled and its timers fire; what the peers and the
\* runtime do (connecting, answering a handshake, reconnecting, stopping)
\* is up to them.
AcceptTaskFairness ==
    \A t \in 1..MaxConnects :
        /\ WF_vars(LoopHead(t) /\ UNCHANGED <<sourceVars, sinkVars, ackVars, buildVars, gbqVars, httpVars, kafkaVars>>)
        /\ WF_vars(AcceptTimeout(t) /\ UNCHANGED <<sourceVars, sinkVars, ackVars, buildVars, gbqVars, httpVars, kafkaVars>>)
        /\ WF_vars(Register(t) /\ UNCHANGED <<sourceVars, sinkVars, ackVars, buildVars, gbqVars, httpVars, kafkaVars>>)

SpecListenerFair == SpecListener /\ AcceptTaskFairness

\* The connector builders
InitBuild ==
    /\ BuildInit
    /\ SourceIdle
    /\ SinkIdle
    /\ AckInit
    /\ ListenerIdle
    /\ GbqIdle
    /\ HttpIdle
    /\ KafkaIdle

NextBuild ==
    \/ Build /\ UNCHANGED <<sourceVars, sinkVars, ackVars, listenerVars, gbqVars, httpVars, kafkaVars>>
    \/ create_source /\ UNCHANGED <<sourceVars, sinkVars, ackVars, listenerVars, gbqVars, httpVars, kafkaVars>>
    \/ create_sink /\ UNCHANGED <<sourceVars, sinkVars, ackVars, listenerVars, gbqVars, httpVars, kafkaVars>>

SpecBuild == InitBuild /\ [][NextBuild]_vars

\* The BigQuery writer sink under its runtime
InitGbq ==
    /\ table_schema \in SinkSchemas
    /\ GbqSink_new
    /\ SourceIdle
    /\ SinkIdle
    /\ AckInit
    /\ ListenerIdle
    /\ BuildInit
    /\ HttpIdle
    /\ KafkaIdle

NextGbq ==
    \/ GbqSink_connect /\ UNCHANGED <<sourceVars, sinkVars, ackVars, listenerVars, buildVars, httpVars, kafkaVars>>
    \/ GbqOnEvent /\ UNCHANGED <<sourceVars, sinkVars, ackVars, listenerVars, buildVars, httpVars, kafkaVars>>

SpecGbq == InitGbq /\ [][NextGbq]_vars

\* map_field and JsonToProtobufMapping::map over the table schemas
InitMapping ==
    /\ table_schema \in TableSchemas
    /\ GbqSink_new
    /\ SourceIdle
    /\ SinkIdle
    /\ AckInit
    /\ ListenerIdle
    /\ BuildInit
    /\ HttpIdle
    /\ KafkaIdle

NewMapping ==
    /\ mapping = None
    /\ mapping' = Some(JsonToProtobufMapping_new(table_schema))
    /\ UNCHANGED <<table_schema, client, write_stream, connectivity, requests,
                   notified, gbq_result>>

MapValue ==
    /\ mapping # None
    /\ gbq_result.op = "none"
    /\ \E value \in EventValues :
        \E row \in JsonToProtobufMapping_map(mapping[1], value) :
            gbq_result' = [call |-> 1, op |-> "map", value |-> Some(value),
                           outcome |-> "mapped", reply |-> Some(row.out),
                           error |-> row.error]
    /\ UNCHANGED <<table_schema, client, write_stream, mapping, connectivity,
                   requests, notified>>

NextMapping ==
    \/ NewMapping /\ UNCHANGED <<sourceVars, sinkVars, ackVars, listenerVars, buildVars, httpVars, kafkaVars>>
    \/ MapValue /\ UNCHANGED <<sourceVars, sinkVars, ackVars, listenerVars, buildVars, httpVars, kafkaVars>>

SpecMapping == InitMapping /\ [][NextMapping]_vars

\* The HTTP request builder over its inputs
InitHttp ==
    /\ HttpInit
    /\ SourceIdle
    /\ SinkIdle
    /\ AckInit
    /\ ListenerIdle
    /\ BuildInit
    /\ GbqIdle
    /\ KafkaIdle

NextHttp ==
    \/ HttpNew /\ UNCHANGED <<sourceVars, sinkVars, ackVars, listenerVars, buildVars, gbqVars, kafkaVars>>
    \/ HttpAppend /\ UNCHANGED <<sourceVars, sinkVars, ackVars, listenerVars, buildVars, gbqVars, kafkaVars>>
    \/ get_chunked_request /\ UNCHANGED <<sourceVars, sinkVars, ackVars, listenerVars, buildVars, gbqVars, kafkaVars>>
    \/ HttpFinalize /\ UNCHANGED <<sourceVars, sinkVars, ackVars, listenerVars, buildVars, gbqVars, kafkaVars>>

SpecHttp == InitHttp /\ [][NextHttp]_vars

\* The Kafka onramp
InitKafka ==
    /\ KafkaStart
    /\ SourceIdle
    /\ SinkIdle
    /\ AckInit
    /\ ListenerIdle
    /\ BuildInit
    /\ GbqIdle
    /\ HttpIdle

NextKafka ==
    \/ CtlSend /\ UNCHANGED <<sourceVars, sinkVars, ackVars, listenerVars, buildVars, gbqVars, httpVars>>
    \/ DropSender /\ UNCHANGED <<sourceVars, sinkVars, ackVars, listenerVars, buildVars, gbqVars, httpVars>>
    \/ WaitFirst /\ UNCHANGED <<sourceVars, sinkVars, ackVars, listenerVars, buildVars, gbqVars, httpVars>>
    \/ Iterate /\ UNCHANGED <<sourceVars, sinkVars, ackVars, listenerVars, buildVars, gbqVars, httpVars>>
    \/ KafkaAck /\ UNCHANGED <<sourceVars, sinkVars, ackVars, listenerVars, buildVars, gbqVars, httpVars>>

SpecKafka == InitKafka /\ [][NextKafka]_vars

\* The loop's thread runs whenever it can: the blocking recv of the first
\* wait returns once a message is there.  When the consumer stream yields
\* a message is up to Kafka, and when control messages are sent, senders
\* dropped and events acknowledged is up to the rest of the system.
OnrampLoopFairness ==
    WF_vars(WaitFirst /\ UNCHANGED <<sourceVars, sinkVars, ackVars, listenerVars, buildVars, gbqVars, httpVars>>)

SpecKafkaFair == SpecKafka /\ OnrampLoopFairness

(***************************************************************************)
(* Properties                                                              *)
(***************************************************************************)
Range(v) == {v[i] : i \in 1..Len(v)}

Count(v, x) == Cardinality({i \in 1..Len(v) : v[i] = x})

KindIdx(kind) == {i \in 1..Len(replies) : replies[i].kind = kind}

\* the pull ids of the Data replies emitted so far
EmittedIds == {replies[i].id : i \in KindIdx("Data")}

\* the file line a Data reply with pull id p was made from
LineOfId(p) ==
    LET i == CHOOSE j \in KindIdx("Data") : replies[j].id = p
    IN config.path[replies[i].line]

\* how often the source was called with ack(p) or fail(p)
Answers(p) == Count(received_cbs.ack, p) + Count(received_cbs.fail, p)

\* the reply the CB sink gives to the event made from a line
ReplyToLine(line) == on_event(<< <<line.data, NoEntry>> >>)

Quiescent == pipe = <<>> /\ contra = <<>>

StraightLine == ~branching

\* C1 (as stated): on a straight-line topology with expect_batched=false, once
\* the run has come to rest (the source has made its final pull and nothing is
\* in flight any more) every emitted pull id has been answered by exactly one
\* ack or fail.
C1_ExactlyOneAnswer ==
    (StraightLine /\ ~config.expect_batched /\ pc = "done" /\ Quiescent)
        => \A p \in EmittedIds : Answers(p) = 1

\* C1 (amended): on a straight-line topology with expect_batched=false every
\* emitted pull id is answered at most once (never ack and fail, never a
\* duplicate), only emitted ids are answered, and once nothing is in flight an
\* id has exactly one answer when the sink's reply to its event carries ack or
\* fail (ack(p) for Ack, fail(p) for Fail) and none when the reply carries
\* neither.
C1_AtMostOneAnswer ==
    (StraightLine /\ ~config.expect_batched) =>
        /\ Range(received_cbs.ack) \cup Range(received_cbs.fail) \subseteq EmittedIds
        /\ \A p \in EmittedIds :
            /\ Answers(p) <= 1
            /\ Quiescent =>
                LET r == ReplyToLine(LineOfId(p)) IN
                    /\ Count(received_cbs.ack, p) = (IF r.ack = "Ack" THEN 1 ELSE 0)
                    /\ Count(received_cbs.fail, p) = (IF r.ack = "Fail" THEN 1 ELSE 0)

C1_Witness ==
    /\ StraightLine /\ ~config.expect_batched /\ Quiescent
    /\ \E p, q, r \in EmittedIds :
        /\ Count(received_cbs.ack, p) = 1
        /\ Count(received_cbs.fail, q) = 1
        /\ Answers(r) = 0

\* every line of the file is readable and makes the sink reply "ack" only
AllLinesAck == \A i \in 1..Len(config.path) : config.path[i] = GoodLine(Str("ack"))

\* C2: with expect_batched=false, on a straight line, when every event has
\* reached the sink and the sink has replied "ack" for each, the final pull
\* finds as many acks as events sent, reports that all required CB events were
\* received, and the process exits with code 0.
C2_AllAckedSucceeds ==
    [][(/\ pc # "done" /\ pc' = "done"
        /\ StraightLine /\ ~config.expect_batched /\ config.timeout > 0
        /\ AllLinesAck /\ pipe = <<>>)
       => (/\ Len(received_cbs'.ack) = num_sent'
           /\ stderr'.msg = Success
           /\ ExitCode(kill_switch') = 0)]_vars

\* the ids of the recorded acks and fails
ReceivedIds == Range(received_cbs.ack) \cup Range(received_cbs.fail)

\* C3: the completion predicate holds exactly when the source is finished and,
\* if expect_batched, the largest recorded ack or fail id is last_sent,
\* otherwise the number of recorded acks plus fails is num_sent.
C3_CompletionPredicate ==
    DidReceiveAll <=>
        /\ finished
        /\ IF config.expect_batched
           THEN /\ last_sent \in ReceivedIds
                /\ \A x \in ReceivedIds : x <= last_sent
           ELSE Len(received_cbs.ack) + Len(received_cbs.fail) = num_sent

C3_Witness ==
    /\ DidReceiveAll
    /\ config.expect_batched
    /\ received_cbs.ack # <<>>
    /\ received_cbs.fail # <<>>

\* what the report printed as acks and fails
ReportedIds == Range(stderr.acks) \cup Range(stderr.fails)

\* C4: with expect_batched=true, a report made when the largest recorded ack
\* or fail id equals last_sent is the success report, whichever smaller ids
\* are missing.
C4_BatchedMaxSuffices ==
    (/\ config.expect_batched
     /\ stderr.msg # ""
     /\ last_sent \in ReportedIds
     /\ \A x \in ReportedIds : x <= last_sent)
        => stderr.msg = Success

C4_Witness ==
    /\ config.expect_batched
    /\ stderr.msg = Success
    /\ \E p \in EmittedIds : p < last_sent /\ p \notin ReportedIds

\* C5: after the final pull the process exits with code 0 if the completion
\* predicate held (success was reported) and with code 1 if it did not (the
\* expected last id was reported).
C5_ExitCodes ==
    kill_switch # "running" =>
        /\ stderr.msg = Success => ExitCode(kill_switch) = 0
        /\ stderr.msg = Missing => ExitCode(kill_switch) = 1

\* the replies after the lines: one EndStream once the file is exhausted, then
\* Finished, nothing else; every Data reply on the default stream with origin
\* scheme tremor-cb
AfterLines ==
    /\ Len(replies) = pos + (IF finished THEN 1 ELSE 0) + (IF pc = "done" THEN 1 ELSE 0)
    /\ finished => pos = Len(config.path) /\ replies[pos + 1].kind = "EndStream"
    /\ pc = "done" => finished /\ replies[pos + 2].kind = "Finished"
    /\ \A i \in KindIdx("Data") :
        replies[i].stream = DEFAULT_STREAM_ID /\ replies[i].scheme = "tremor-cb"

\* C6 (as stated): the i-th pull_data call returns a Data reply for the i-th
\* line of the file, for every line, on the default stream with origin scheme
\* tremor-cb; the first pull after EOF returns the only EndStream and sets
\* finished; Finished comes only after it.
C6_OneDataPerLine ==
    /\ \A i \in 1..pos : replies[i].kind = "Data" /\ replies[i].line = i
    /\ AfterLines

\* C6 (amended): the i-th pull_data call consumes the i-th line of the file
\* and returns a Data reply for it when the line can be read and an error when
\* it cannot; the Data replies are on the default stream with origin scheme
\* tremor-cb; the first pull after EOF returns the only EndStream and sets
\* finished; Finished comes only after it, and nothing after Finished.
C6_ReplySequence ==
    /\ \A i \in 1..pos :
        /\ replies[i].line = i
        /\ replies[i].kind = (IF config.path[i].ok THEN "Data" ELSE "Err")
    /\ AfterLines

C6_Witness ==
    /\ pc = "done"
    /\ Cardinality(KindIdx("Data")) = 2
    /\ Cardinality(KindIdx("Err")) = 1

\* the recorded acks and fails with the contraflow still in the mailbox added
RECURSIVE ApplyContra(_, _)
ApplyContra(rc, msgs) ==
    IF msgs = <<>> THEN rc
    ELSE LET m == Head(msgs)
             next == IF m.kind = "ack" THEN [rc EXCEPT !.ack = Append(@, m.id)]
                     ELSE IF m.kind = "fail" THEN [rc EXCEPT !.fail = Append(@, m.id)]
                     ELSE rc
         IN ApplyContra(next, Tail(msgs))

\* C7: the acks and fails that were delivered to the source while it waited
\* are counted when the predicate is evaluated after the wait: if they complete
\* the predicate, success is reported.
C7_WaitCountsLateAnswers ==
    [][(/\ pc = "sleeping" /\ pc' = "done"
        /\ did_receive_all(config, ApplyContra(received_cbs, contra), num_sent,
                           last_sent, finished))
       => stderr'.msg = Success]_vars

PullEnabled == ENABLED (PullLine \/ PullEndStream \/ PullFinished)

C9_RestoreAtMostTrigger == received_cbs.restore <= received_cbs.trigger

InMailbox(kind) == Cardinality({i \in 1..Len(contra) : contra[i].kind = kind})

\* the sink's circuit breaker replies alternate Trigger, Restore, Trigger, ...
TriggerScenario == \A i \in 1..Len(cb_sent) :
    cb_sent[i] = (IF i % 2 = 1 THEN "Trigger" ELSE "Restore")

\* C9 (amended): the trigger and restore counters count the Trigger and Restore
\* replies of the sink that have reached the source; in a trigger scenario
\* (the sink's circuit breaker replies alternate, starting with Trigger) the
\* restore counter is at most the trigger counter in every state, and the two
\* are equal once the scenario has ended with a Restore and every signal has
\* reached the source.
C9_CountersMatchSink ==
    /\ received_cbs.trigger + InMailbox("trigger") = Count(cb_sent, "Trigger")
    /\ received_cbs.restore + InMailbox("restore") = Count(cb_sent, "Restore")
    /\ TriggerScenario =>
        /\ received_cbs.restore <= received_cbs.trigger
        /\ (Len(cb_sent) % 2 = 0 /\ InMailbox("trigger") + InMailbox("restore") = 0)
              => received_cbs.restore = received_cbs.trigger

C9_Witness ==
    /\ TriggerScenario
    /\ Len(cb_sent) = 2
    /\ received_cbs.trigger = 1
    /\ received_cbs.restore = 1

\* the cb entry CbSink reads from a (value, meta) pair: the metadata's, the
\* payload's only when the metadata has none
EntryOf(pair) == IF pair[2].t # "none" THEN pair[2] ELSE pair[1]

\* the commands of a cb entry: the string, or the strings of the array
CommandSet(e) ==
    IF e.t = "str" THEN {e.s}
    ELSE IF e.t = "arr" THEN {e.a[i].s : i \in {j \in 1..Len(e.a) : e.a[j].str}}
    ELSE {}

\* C10: the reply to an event is determined by the commands of its cb entry
\* (metadata first, payload only when the metadata has none): ack is Ack with
\* "ack", Fail with "fail" (and no "ack"), None with neither; cb is Trigger
\* with "close" or "trigger", Restore with "open" or "restore" (and neither
\* "close" nor "trigger"), None with none of them; an event without any cb
\* entry is answered {ack: None, cb: None}.
C10_CommandMapping ==
    sinkReply # Pending =>
        /\ (\A k \in 1..Len(sinkEvent) : EntryOf(sinkEvent[k]).t = "none")
              => sinkReply = [ack |-> "None", cb |-> "None"]
        /\ Len(sinkEvent) = 1 =>
            LET c == CommandSet(EntryOf(sinkEvent[1])) IN
                /\ sinkReply.ack = "Ack" <=> "ack" \in c
                /\ sinkReply.ack = "Fail" <=> ("fail" \in c /\ "ack" \notin c)
                /\ sinkReply.ack = "None" <=> c \cap {"ack", "fail"} = {}
                /\ sinkReply.cb = "Trigger" <=> c \cap {"close", "trigger"} # {}
                /\ sinkReply.cb = "Restore" <=>
                      (c \cap {"open", "restore"} # {} /\ c \cap {"close", "trigger"} = {})
                /\ sinkReply.cb = "None" <=>
                      c \cap {"close", "trigger", "open", "restore"} = {}

C10_Witness ==
    /\ Len(sinkEvent) = 1
    /\ sinkEvent[1][2].t = "none"
    /\ sinkEvent[1][1].t = "arr"
    /\ sinkReply = [ack |-> "Fail", cb |-> "Restore"]

(***************************************************************************)
(* Auto-ack                                                                *)
(***************************************************************************)
\* The acks and fails the sink runtime of sink k propagated for event id
AcksFor(k, id) ==
    {i \in 1..Len(upstream[k]) :
        upstream[k][i].id = id /\ upstream[k][i].kind \in {"ack", "fail"}}

\* C11: a sink whose auto_ack is true (Clickhouse, whose on_event always
\* returns a reply without an ack) gets exactly one Ack propagated upstream
\* per event; for a sink whose auto_ack is false (CB, BigQuery) a reply
\* without an ack propagates neither an ack nor a fail.
C11_AutoAck ==
    /\ \A id \in 1..Len(handled["clickhouse"]) :
          /\ handled["clickhouse"][id].ack = "None"
          /\ Cardinality(AcksFor("clickhouse", id)) = 1
          /\ \A i \in AcksFor("clickhouse", id) :
                upstream["clickhouse"][i].kind = "ack"
    /\ \A k \in {"cb", "gbq"} : \A id \in 1..Len(handled[k]) :
          handled[k][id].ack = "None" => AcksFor(k, id) = {}

C11_Witness ==
    /\ Len(handled["clickhouse"]) = MaxSinkEvents
    /\ Len(upstream["clickhouse"]) = MaxSinkEvents
    /\ \E k \in {"cb", "gbq"} : \E id \in 1..Len(handled[k]) :
          /\ handled[k][id].ack = "None"
          /\ \E j \in 1..Len(handled[k]) : handled[k][j].ack = "Ack"
    /\ handled["gbq"] # <<>> /\ handled["gbq"][1].ack = "None"
    /\ handled["cb"] # <<>> /\ handled["cb"][1].ack = "None"

(***************************************************************************)
(* Listeners                                                               *)
(***************************************************************************)
RunningTasks == {t \in 1..MaxConnects : Running(t)}

\* (stream id, connection) for every connection that was given a stream id
\* and is registered or about to be
Allocated ==
    {<<regs[i].stream_id, regs[i].conn>> : i \in WriterEntries}
        \cup {<<tasks[t].stream_id, tasks[t].conn>> :
                 t \in {u \in RunningTasks : tasks[u].conn # 0}}

\* C12: over any sequence of connects (reconnects included) and accepted
\* connections of one listener, stream ids start at 1 and no stream id is
\* given to two connections; no two registered writers share a stream id.
C12_StreamIdsUnique ==
    /\ \A a \in Allocated : a[1] >= 1
    /\ \A a \in Allocated : a[2] = 1 => a[1] = 1
    /\ \A a, b \in Allocated : a[1] = b[1] => a[2] = b[2]

\* C13: a failed TLS or WebSocket handshake aborts only its connection:
\* nothing is registered for it and the accept task keeps running.
C13_HandshakeFailureIsLocal ==
    [][aborted' # aborted =>
          /\ \A t \in RunningTasks : tasks'[t].st = "running"
          /\ \A i \in 1..Len(regs') : regs'[i].conn \notin aborted']_vars

\* C14: for every accepted connection the writer is registered with the
\* channel sink, under the connection's stream id, before the reader is
\* registered with the channel source under the same stream id; so no
\* Data reply of a stream exists before the stream's writer registration.
C14_WriterBeforeReader ==
    /\ \A j \in 1..Len(regs) :
          regs[j].op = "reader" =>
             \E i \in 1..(j - 1) :
                /\ regs[i].op = "writer"
                /\ regs[i].stream_id = regs[j].stream_id
                /\ regs[i].conn = regs[j].conn
    /\ \A c \in data_from : \E i \in WriterEntries : regs[i].conn = c

C14_Witness ==
    /\ Len(regs) = 2 * MaxConns
    /\ data_from = 1..MaxConns

\* C15: connect cancels the previous accept task before it binds the new
\* listener: there is never more than one accept task or more than one
\* bound listener, and a connect that returns true leaves exactly one
\* accept task running.
C15_OneAcceptTask ==
    /\ [](Cardinality(RunningTasks) <= 1 /\ Cardinality(bound) <= 1)
    /\ [][connect_calls' # connect_calls =>
            /\ \A t \in RunningTasks : tasks'[t].st # "running"
            /\ accept_task' # None =>
                  /\ Cardinality(RunningTasks') = 1
                  /\ bound' = RunningTasks'
                  /\ accept_task' = Some(connect_calls')]_vars

C15_Witness ==
    /\ connect_calls = MaxConnects
    /\ accept_task = Some(MaxConnects)
    /\ tasks[1].st = "ended"
    /\ Running(MaxConnects)
    /\ regs # <<>>
    /\ beacon = "running"
    /\ aborted = {}
    /\ conns = 1

\* C16: on_stop cancels the accept task: afterwards the connector accepts
\* and registers no further connection, the registered readers and writers
\* are left alone, and a second on_stop changes nothing.
C16_StopEndsAccepting ==
    /\ [](stop_calls >= 1 => RunningTasks = {} /\ bound = {} /\ accept_task = None)
    /\ [][stop_calls >= 1 => regs' = regs /\ conns' = conns]_vars
    /\ [][stop_calls' # stop_calls =>
            /\ regs' = regs
            /\ data_from' = data_from
            /\ stop_calls >= 1 => UNCHANGED <<accept_task, tasks, bound>>]_vars

C16_Witness ==
    /\ stop_calls = MaxStops
    /\ connect_calls >= 1
    /\ tasks[1].st = "ended"
    /\ Len(regs) = 2
    /\ conns = 2
    /\ aborted = {}
    /\ data_from = {1}

\* C17: the accept task asks the beacon before every accept attempt and
\* every attempt is bounded by ACCEPT_TIMEOUT, so once the beacon stops
\* permitting reading the accept task ends on its own.
C17_BeaconEndsAcceptTask == (beacon = "stopped") ~> (RunningTasks = {})

\* C18: the metadata a listener attaches to the events of a connection
\* resolves to the ConnectionMeta the connection's writer was registered
\* under, so an outbound event carrying it goes to that connection's writer
\* and to no other; metadata lacking host, port or peer resolves to none.
C18_MetaRoutesToOwnWriter ==
    dispatched.origin # 0 =>
       IF dispatched.lacking THEN dispatched.resolved = None
       ELSE /\ dispatched.resolved = dispatched.registered
            /\ dispatched.to = {dispatched.origin}

(***************************************************************************)
(* Builders                                                                *)
(***************************************************************************)
\* C19: for every connector builder, a configuration with an unknown key
\* fails to build.
C19_UnknownKeyFailsBuild ==
    (built.result # "none" /\ UnknownKey \in built.raw.keys) => built.result = "err"

\* C20: a CB configuration without path fails when the connector is built:
\* no connector, no source and no sink comes out of it.
C20_MissingPathFailsBuild ==
    (built.ty = "cb" /\ "path" \notin built.raw.keys) =>
        /\ built.result = "err"
        /\ built.source = "none"
        /\ built.sink = "none"

(***************************************************************************)
(* The BigQuery writer sink                                                *)
(***************************************************************************)
GbqFail == [ack |-> "Fail", cb |-> "None"]

\* on_event was called in this step
OnEventCalled == gbq_result'.call # gbq_result.call

\* C21: from the moment the sink notified connection_lost until a later
\* connect succeeds, on_event sends no request to the remote endpoint.
C21_NoSendWhileLost ==
    [][connectivity = "lost" => requests' = requests]_vars

C23_MismatchIsFail ==
    (gbq_result.op = "on_event" /\ gbq_result.outcome = "mapping")
        => (gbq_result.reply = Some(GbqFail) /\ gbq_result.error = None)

\* C24: on_event while the client, the write stream or the mapping is
\* missing returns the client-not-available error, sends no request and
\* leaves the sink's state as it was.
C24_NotConnectedIsError ==
    [][(OnEventCalled /\ (~client \/ ~write_stream \/ mapping = None))
         => /\ gbq_result'.reply = None
            /\ gbq_result'.error # None
            /\ gbq_result'.error[1].kind = "ClientNotAvailable"
            /\ UNCHANGED <<client, write_stream, mapping, requests, notified,
                           connectivity, table_schema>>]_vars

C24_Witness ==
    /\ gbq_result.op = "on_event"
    /\ gbq_result.call = 2
    /\ gbq_result.error = Some(GbqError("ClientNotAvailable", "BigQuery",
                                        "The client is not connected"))
    /\ ~client /\ mapping = None /\ requests = <<>>

\* the fields map_field keeps, in declared order
Retained(raw_fields) == SelectSeq(raw_fields, LAMBDA f : f.type \notin DroppedTypes)

\* the retained fields carry the tags 1, 2, ... in declared order, in the
\* descriptor and in the field map, and the dropped ones are in neither
TagsFromOne(raw_fields, descriptor, fields) ==
    LET kept == Retained(raw_fields)
    IN  /\ Len(descriptor[2]) = Len(kept)
        /\ DOMAIN fields = {kept[i].name : i \in 1..Len(kept)}
        /\ \A i \in 1..Len(kept) :
            /\ descriptor[2][i].name = kept[i].name
            /\ descriptor[2][i].number = i
            /\ fields[kept[i].name].tag = i
            /\ fields[kept[i].name].table_type = kept[i].type

\* C29: map_field numbers the retained fields 1, 2, ... in declared order;
\* a field of unknown or unspecified type is in neither the descriptor nor
\* the field map and takes no tag; the numbering restarts at 1 inside every
\* nested struct.
C29_TagsInDeclaredOrder ==
    mapping # None =>
        LET m == mapping[1]
        IN  /\ TagsFromOne(table_schema, m.descriptor, m.fields)
            /\ \A i \in 1..Len(table_schema) :
                 table_schema[i].type = "Struct" =>
                    \E j \in 1..Len(m.descriptor[3]) :
                        /\ m.descriptor[3][j][1] = <<"struct", table_schema[i].name>>
                        /\ TagsFromOne(table_schema[i].fields, m.descriptor[3][j],
                                       m.fields[table_schema[i].name].subfields)

C29_Witness ==
    /\ mapping # None
    /\ Len(table_schema) = 2
    /\ table_schema[1].type = "Unknown"
    /\ table_schema[2].type = "Struct"
    /\ Len(table_schema[2].fields) = 2
    /\ mapping[1].fields["b"].tag = 1
    /\ mapping[1].fields["b"].subfields["b"].tag = 1

\* the kind a declared type expects, and the kinds that satisfy it
ExpectedKind(type) ==
    CASE type = "Int64" -> "i64"
      [] type = "Double" -> "f64"
      [] type = "Bool" -> "bool"
      [] type = "Bytes" -> "bytes"
      [] type = "Struct" -> "object"
      [] OTHER -> "string"

Matches(type, kind) ==
    \/ kind = ExpectedKind(type)
    \/ type = "Bytes" /\ kind = "string"

\* the <<expected, actual>> pairs of the entries of obj that do not match
\* the declared type of their field
Mismatches(obj, fields) ==
    {<<ExpectedKind(fields[k].table_type), obj[k].kind>> :
        k \in {n \in DOMAIN obj \cap DOMAIN fields :
                 /\ fields[n].table_type \in ScalarTypes \cup StringTypes \cup {"Struct"}
                 /\ ~Matches(fields[n].table_type, obj[n].kind)}}

AllMismatches(value, m) ==
    Mismatches(value.obj, m.fields)
        \cup UNION {Mismatches(value.obj[k].obj, m.fields[k].subfields) :
                      k \in {n \in DOMAIN value.obj \cap DOMAIN m.fields :
                               /\ m.fields[n].table_type = "Struct"
                               /\ value.obj[n].kind = "object"}}

\* C30: a value whose kind does not match the declared type of its field
\* (Int64, Double, Bool, Bytes, a type written as a string, Struct) makes
\* the mapping return the type mismatch error naming the expected and the
\* actual kind, and an event that is not an object makes it return that
\* error with the expected kind object.
C30_MismatchIsReported ==
    gbq_result.op = "map" =>
        LET value == gbq_result.value[1]
            wrong == AllMismatches(value, mapping[1])
        IN  IF value.kind # "object"
            THEN gbq_result.error
                    = Some(GbqError("BigQueryTypeMismatch", "object", value.kind))
            ELSE IF wrong = {} THEN gbq_result.error = None
            ELSE /\ gbq_result.error # None
                 /\ gbq_result.error[1].kind = "BigQueryTypeMismatch"
                 /\ <<gbq_result.error[1].a, gbq_result.error[1].b>> \in wrong

C30_Witness ==
    /\ gbq_result.op = "map"
    /\ Len(table_schema) = 1
    /\ table_schema[1].type = "Bytes"
    /\ gbq_result.value[1].kind = "object"
    /\ gbq_result.error = Some(GbqError("BigQueryTypeMismatch", "bytes", "i64"))

(***************************************************************************)
(* The HTTP request builder                                                *)
(***************************************************************************)
HasRequest == builder.state \in {"built", "finalized"}

\* the request new built, wherever it is by now
TheRequest ==
    IF builder.request # None THEN builder.request[1]
    ELSE IF builder.taken # None THEN builder.taken[1]
    ELSE builder.returned[1]

HeaderOf(name) ==
    IF name \in DOMAIN TheRequest.headers THEN TheRequest.headers[name] ELSE <<>>

\* the configured values of a header followed by the strings the meta gives it
Merged(name) ==
    (IF name \in DOMAIN http_in.headers THEN http_in.headers[name] ELSE <<>>)
        \o (IF name \in DOMAIN http_in.meta_headers
            THEN Strings(http_in.meta_headers[name].items) ELSE <<>>)

GivenNames == DOMAIN http_in.headers \cup DOMAIN http_in.meta_headers

\* C25 as stated: every header of the request holds all configured values
\* followed by all values of the meta, whatever its name.
C25_AllValuesKept ==
    HasRequest => \A name \in GivenNames : HeaderOf(name) = Merged(name)

\* C25: every header of the request holds its configured values followed by
\* the string values of the meta, each as often as given, except that
\* Authorization holds only the value of the config's auth when there is
\* one, and that a chunked request has no Content-Length.
C25_ValuesKeptButAuthAndLength ==
    HasRequest =>
        \A name \in GivenNames :
            IF name = "authorization" /\ http_in.auth
            THEN HeaderOf(name) = <<AuthHeaderValue>>
            ELSE IF name = "content-length" /\ TheRequest.body.kind = "streaming"
            THEN HeaderOf(name) = <<>>
            ELSE HeaderOf(name) = Merged(name)

C25_Witness ==
    /\ HasRequest
    /\ http_in.headers = Put(EmptyMap, "cake", <<"black forest", "cheese">>)
    /\ HeaderOf("cake") = <<"black forest", "cheese", "cheese", "cheese">>

\* the Content-Type the config and the meta give, if any
Explicit ==
    IF Merged("content-type") = <<>> THEN None
    ELSE Some(Merged("content-type")[Len(Merged("content-type"))])

\* C26: the request's content type is the explicit Content-Type header if
\* there is one, else the mime type of the override codec, else that of the
\* configured codec, else application/octet-stream; and a codec override is
\* recorded only when the explicit header's mime type maps to a codec other
\* than the configured one.
C26_ContentTypePrecedence ==
    HasRequest =>
        /\ HeaderOf("content-type") # <<>>
        /\ HeaderOf("content-type")[Len(HeaderOf("content-type"))] =
              IF Explicit # None THEN Explicit[1]
              ELSE IF builder.codec_overwrite # None
                      /\ get_mime_type(builder.codec_overwrite[1]) # None
                   THEN get_mime_type(builder.codec_overwrite[1])[1]
              ELSE IF get_mime_type(http_in.codec) # None
                   THEN get_mime_type(http_in.codec)[1]
              ELSE BYTE_STREAM
        /\ builder.codec_overwrite # None =>
              /\ Explicit # None
              /\ get_codec_name(Explicit[1]) = builder.codec_overwrite
              /\ builder.codec_overwrite[1] # http_in.codec

C26_Witness ==
    /\ HasRequest
    /\ http_in.codec = "json"
    /\ builder.codec_overwrite = Some("string")
    /\ HeaderOf("content-type") = <<"text/plain">>

\* a Transfer-Encoding header naming chunked is among the merged headers
ChunkedPresent ==
    \E i \in 1..Len(Merged("transfer-encoding")) :
        Merged("transfer-encoding")[i] \in {"chunked", "gzip, chunked"}

\* C27: the request is in chunked mode whenever a Transfer-Encoding: chunked
\* header is among the merged headers, and then has no Content-Length;
\* otherwise it is buffered and gets a body of fixed length at finalize.
C27_ChunkedWhenPresent ==
    HasRequest =>
        IF ChunkedPresent
        THEN TheRequest.body.kind = "streaming" /\ HeaderOf("content-length") = <<>>
        ELSE /\ TheRequest.body.kind # "streaming"
             /\ builder.state = "finalized" =>
                   TheRequest.body.kind = "fixed" /\ TheRequest.body.len # None

\* the chunks of the values appended so far, in call order
RECURSIVE Serialized(_, _)
Serialized(values, codec) ==
    IF values = <<>> THEN <<>>
    ELSE serialize(Head(values), codec) \o Serialized(Tail(values), codec)

UsedCodec ==
    IF builder.codec_overwrite # None THEN builder.codec_overwrite[1] ELSE http_in.codec

DataIdsOf(rs) == {rs[i].id : i \in {j \in 1..Len(rs) : rs[j].kind = "Data"}}

\* C32: last_sent never decreases; after every pull_data call that returned
\* Data it is the largest pull id a Data reply was emitted with; and it is
\* the id the report names as the expected last one.
C32_LastSentIsLatest ==
    [][/\ last_sent' >= last_sent
       /\ (Len(replies') > Len(replies) /\ replies'[Len(replies')].kind = "Data")
             => /\ last_sent' \in DataIdsOf(replies')
                /\ \A id \in DataIdsOf(replies') : id <= last_sent'
       /\ stderr'.msg = Missing => stderr'.id = last_sent']_vars

C32_Witness ==
    /\ Len(replies) = 3
    /\ replies[1].kind = "Data"
    /\ replies[2].kind = "Err"
    /\ replies[3].kind = "Data"
    /\ last_sent = 2

\* C33: with expect_batched=false a success report means that every pull id
\* the source emitted is among the recorded acks or fails.
C33_SuccessMeansAllAnswered ==
    (~config.expect_batched /\ stderr.msg = Success)
        => DataIdsOf(replies) \subseteq ReportedIds

\* C34: with an empty file the report is the success report, without any
\* ack or fail, whatever expect_batched is.
C34_EmptyFileSucceeds ==
    (config.path = <<>> /\ stderr.msg # "")
        => (stderr.msg = Success /\ stderr.acks = <<>> /\ stderr.fails = <<>>)

\* C35: num_sent is the number of Data replies pull_data returned so far.
C35_NumSentCountsData ==
    num_sent = Cardinality({i \in 1..Len(replies) : replies[i].kind = "Data"})

\* the elements of an event that carry a cb entry
WithEntry(event) == {k \in 1..Len(event) : EntryOf(event[k]).t # "none"}

\* C36: the reply of CbSink.on_event is that of the commands of the first
\* element carrying a cb entry, taken as a set (non-string elements left
\* out): Ack if "ack" is among them, whatever else is; else Fail if "fail"
\* is; Trigger if "close" or "trigger" is, whatever else is; else Restore if
\* "open" or "restore" is.
C36_ConflictsResolved ==
    (sinkReply # Pending /\ WithEntry(sinkEvent) # {}) =>
        LET first == CHOOSE k \in WithEntry(sinkEvent) :
                        \A j \in WithEntry(sinkEvent) : k <= j
            c == CommandSet(EntryOf(sinkEvent[first]))
        IN  /\ sinkReply.ack = IF "ack" \in c THEN "Ack"
                               ELSE IF "fail" \in c THEN "Fail" ELSE "None"
            /\ sinkReply.cb = IF c \cap {"close", "trigger"} # {} THEN "Trigger"
                              ELSE IF c \cap {"open", "restore"} # {} THEN "Restore"
                              ELSE "None"

C36_Witness ==
    /\ Len(sinkEvent) = 1
    /\ sinkEvent[1][2] = Arr(<<StrElem("open"), StrElem("close")>>)
    /\ sinkReply = [ack |-> "None", cb |-> "Trigger"]

(***************************************************************************)
(* The GBQ sink, continued                                                 *)
(***************************************************************************)
\* C37: once connected, every on_event call ends in a definite outcome: an
\* error, or a reply that carries an ack or a fail.
C37_DefiniteOutcome ==
    (gbq_result.op = "on_event" /\ gbq_result.error = None)
        => (gbq_result.reply # None /\ gbq_result.reply[1].ack \in {"Ack", "Fail"})

(***************************************************************************)
(* The HTTP request builder, continued                                     *)
(***************************************************************************)
\* the calls that handed the request out, and the calls of one operation
Givers == {i \in 1..Len(handed) : handed[i].request # None}

CallsOf(op) == {i \in 1..Len(handed) : handed[i].op = op}

First(calls) == {i \in calls : \A j \in calls : i <= j}

\* in buffered mode get_chunked_request returns none and only the first
\* finalize returns the request
BufferedHandsOutAtFinalize ==
    ~channel.open => Givers = First(CallsOf("finalize"))

C31_SyncWaitsForAck ==
    kafka_config.sync => Cardinality(unacked) <= 1

Waiting(n) == \E i \in 1..Len(rx) : rx[i].n = n

\* C40: every control message sent while the onramp runs is eventually
\* received by the loop, and every Disconnect among them is eventually
\* answered (the loop answers a Disconnect in the step that receives it),
\* whether or not Kafka delivers further messages.
C40_ControlEventuallyHandled ==
    \A n \in 1..MaxCtl :
        (Waiting(n) /\ OnrampRunning) ~>
            (\/ ~OnrampRunning
             \/ /\ n \in ctl_log.received
                /\ \A i \in 1..Len(rx) : rx[i].n # n)

====
